---- MODULE Spec2Model ----
(***************************************************************************)
(* The agent-based RAG query pipeline of polly-ai: ExecuteQuery.execute    *)
(* (domain/rag/use_cases.py) with the collaborators it drives - the Redis  *)
(* cache, the LLM planner, the intent-driven retriever, the LLM extractor, *)
(* the LLM composer, the LLM verifier - and the cost model.                *)
(*                                                                         *)
(* Each HTTP request runs execute once.  A request is a process whose      *)
(* program counter stops at every await of execute; the outcome of each    *)
(* external call (Redis, LLM, embedder, vector store) is drawn from a      *)
(* small set.  Wall-clock values (processing_time_ms) are left out.        *)
(***************************************************************************)
EXTENDS Integers, Sequences, FiniteSets, TLC

(***************************************************************************)
(* Bounds                                                                  *)
(***************************************************************************)
\* number of chunks in the vector store (and longest search answer)
MaxChunks == 3

\* llm token counts given to calculate on its own: multiples of 500 up to
\* 500 * MaxTokenSteps
MaxTokenSteps == 5

\* raw components tried on parse_component: series of a chart, items and
\* attributes of a comparison, events of a timeline, parties of a vote
MaxSeries == 2

MaxItems == 3

MaxAttributes == 2

MaxEvents == 3

MaxParties == 2

\* extractions given to compose on its own
MaxExtractions == 2

(***************************************************************************)
(* Program constants                                                       *)
(***************************************************************************)
\* IntentDrivenRetriever.__init__ defaults
DefaultTopK == 10
MinChunksForSufficiency == 3
\* ExecuteQuery.__init__ defaults: cache_ttl_seconds, cost_margin (in tenths)
CacheTtlSeconds == 3600
CostMarginTenths == 4
\* cost rates, in 1e-5 cent per token (per query for the vector rate)
EmbeddingRateE5 == 1
LlmInputRateE5 == 100
LlmOutputRateE5 == 300
VectorQueryRateE5 == 1000
\* the sort key of a chunk without metadata["date"]: "9999-99-99"
MissingDate == 99999999

\* the requests, in the order they arrive
RequestOrder == <<"r1", "r2">>
Requests == { RequestOrder[i] : i \in 1..Len(RequestOrder) }

NoneStr == "None"

Min(a, b) == IF a < b THEN a ELSE b
Max(a, b) == IF a > b THEN a ELSE b

\* list.insert(i, x) for 0 <= i <= len(list)
ListInsert(s, i, x) == SubSeq(s, 1, i) \o <<x>> \o SubSeq(s, i + 1, Len(s))

(***************************************************************************)
(* Queries and the cache key                                               *)
(***************************************************************************)
\* Query.text is kept as its list of words (text.split()); filters is None
\* or a QueryFilters value, named by its repr.
Queries ==
    { [text |-> <<"money", "bill">>, filters |-> NoneStr],
      [text |-> <<"money", "bill">>, filters |-> "QueryFilters(document_types=['bill'])"] }

\* RedisCache.query_key: the key is a digest of "|".join(key_parts); the
\* digest is kept as the key_parts themselves.
query_key(q) ==
    IF q.filters # NoneStr THEN <<q.text, q.filters>> ELSE <<q.text>>

CacheKeys == { query_key(q) : q \in Queries }

(***************************************************************************)
(* Components, sections, layouts                                           *)
(***************************************************************************)
\* Component.create: a component with a fresh uuid.  The n-th uuid drawn by
\* request p is <<p, n>>.
Uuid(p, n) == <<p, n>>

Notice(id, level, title) ==
    [id |-> id, type |-> "notice", level |-> level, title |-> title, body |-> "message"]

TextBlock(id, body) ==
    [id |-> id, type |-> "text_block", level |-> NoneStr, title |-> NoneStr, body |-> body]

Section(ids) == [component_ids |-> ids]

Layout(title, sections) == [title |-> title, sections |-> sections]

CompIds(cs) == [i \in 1..Len(cs) |-> cs[i].id]

(***************************************************************************)
(* Cost model                                                              *)
(***************************************************************************)
\* The amounts calculate rounds are floats; the model keeps them exact, in
\* 1e-5 cent.  A float differs from the exact amount by far less than
\* 1e-5 cent, which changes round() only when the exact amount lies halfway
\* between two integers: then the float lies just below it (-1), on it (0)
\* or just above it (1).
FloatErrors == {-1, 0, 1}

\* Python round() of the float of the exact amount num/den >= 0: to the
\* nearest integer, a float exactly halfway to the even one
RoundHalfEven(num, den, float_error) ==
    LET q == num \div den
        r == num % den
    IN IF 2 * r < den THEN q
       ELSE IF 2 * r > den THEN q + 1
       ELSE IF float_error < 0 THEN q
       ELSE IF float_error > 0 THEN q + 1
       ELSE IF q % 2 = 0 THEN q ELSE q + 1

\* the exact amount num/den lies halfway between two integers
IsHalfway(num, den) == 2 * (num % den) = den

\* the float errors that can change what calculate returns for these
\* counts: all of them when an amount it rounds is halfway, else just 0
FloatErrorsFor(embedding_tokens, llm_input_tokens, llm_output_tokens, vector_queries, marginTenths) ==
    LET embedding_cost_f == embedding_tokens * EmbeddingRateE5
        llm_cost_f == llm_input_tokens * LlmInputRateE5 + llm_output_tokens * LlmOutputRateE5
        vector_cost_f == vector_queries * VectorQueryRateE5
        subtotal_f == embedding_cost_f + llm_cost_f + vector_cost_f
    IN IF \/ IsHalfway(embedding_cost_f, 100000)
          \/ IsHalfway(llm_cost_f, 100000)
          \/ IsHalfway(vector_cost_f, 100000)
          \/ IsHalfway(subtotal_f * marginTenths, 1000000)
          \/ IsHalfway(subtotal_f * 10 + subtotal_f * marginTenths, 1000000)
       THEN FloatErrors ELSE {0}

CostZero ==
    [embedding_tokens |-> 0, embedding_cost_cents |-> 0,
     llm_input_tokens |-> 0, llm_output_tokens |-> 0, llm_cost_cents |-> 0,
     vector_queries |-> 0, vector_cost_cents |-> 0,
     margin_cents |-> 0, total_cents |-> 0, total_credits |-> 0]

\* variant: the total is the subtotal less the margin
calculate_margin_off(embedding_tokens, llm_input_tokens, llm_output_tokens, vector_queries, marginTenths, float_error) ==
    LET subtotal_f == embedding_tokens * EmbeddingRateE5
                        + llm_input_tokens * LlmInputRateE5
                        + llm_output_tokens * LlmOutputRateE5
                        + vector_queries * VectorQueryRateE5
        total_f10 == subtotal_f * 10 - subtotal_f * marginTenths
        total == IF total_f10 > 0 THEN RoundHalfEven(total_f10, 1000000, float_error) ELSE 0
    IN [CostZero EXCEPT !.total_cents = total, !.total_credits = total]

\* CostBreakdown.calculate: amounts in 1e-5 cent, the margin in tenths
calculate(embedding_tokens, llm_input_tokens, llm_output_tokens, vector_queries, marginTenths, float_error) ==
    LET round(num, den) == RoundHalfEven(num, den, float_error)
        embedding_cost_f == embedding_tokens * EmbeddingRateE5
        llm_cost_f == llm_input_tokens * LlmInputRateE5 + llm_output_tokens * LlmOutputRateE5
        vector_cost_f == vector_queries * VectorQueryRateE5
        subtotal_f == embedding_cost_f + llm_cost_f + vector_cost_f
        margin_f10 == subtotal_f * marginTenths
        total_f10 == subtotal_f * 10 + margin_f10
        total == IF total_f10 > 0 THEN round(total_f10, 1000000) ELSE 0
    IN [embedding_tokens |-> embedding_tokens,
        embedding_cost_cents |->
            IF embedding_tokens > 0 THEN Max(1, round(embedding_cost_f, 100000)) ELSE 0,
        llm_input_tokens |-> llm_input_tokens,
        llm_output_tokens |-> llm_output_tokens,
        llm_cost_cents |->
            IF llm_input_tokens + llm_output_tokens > 0
            THEN Max(1, round(llm_cost_f, 100000)) ELSE 0,
        vector_queries |-> vector_queries,
        vector_cost_cents |->
            IF vector_queries > 0 THEN Max(1, round(vector_cost_f, 100000)) ELSE 0,
        margin_cents |->
            IF marginTenths > 0 /\ subtotal_f > 0
            THEN Max(1, round(margin_f10, 1000000)) ELSE 0,
        total_cents |-> total,
        total_credits |-> total]

(***************************************************************************)
(* Results and their serialisation in Redis                                *)
(***************************************************************************)
QueryMetadata(documents_retrieved, chunks_used, model) ==
    [documents_retrieved |-> documents_retrieved, chunks_used |-> chunks_used, model |-> model]

\* RAGResult.cost before execute assigns it: None
NoCost == [none |-> TRUE]

RAGResult(layout, components, metadata, sources, cached, cost) ==
    [layout |-> layout, components |-> components, metadata |-> metadata,
     sources |-> sources, cached |-> cached, cost |-> cost]

\* pickle.dumps / pickle.loads of a RAGResult: every field of the dataclass
\* goes into the byte string, in declaration order, and comes back.
pickle_dumps(r) ==
    <<"RAGResult", r.layout, r.components, r.metadata, r.sources, r.cached, r.cost>>

pickle_loads(d) ==
    [layout |-> d[2], components |-> d[3], metadata |-> d[4],
     sources |-> d[5], cached |-> d[6], cost |-> d[7]]

\* what Redis GET gives for a key that is absent (or has expired): None
Nil == <<>>

\* Redis holds, per key, the bytes and the time to live they were set with
\* (0: no expiry); Absent is a key Redis does not hold
Absent == [data |-> Nil, ttl |-> 0]

\* RedisCache.get before unpickling: self.client.get(key)
redis_get(store, key) == store[key].data

\* variant: SET without expiry, whatever ttl_seconds is
redis_set_persist(store, key, value, ttl_seconds) ==
    [store EXCEPT ![key] = [data |-> pickle_dumps(value), ttl |-> 0]]

\* variant: SET ... NX, the first value written under a key is kept
redis_set_nx(store, key, value, ttl_seconds) ==
    IF store[key].data # Nil THEN store
    ELSE [store EXCEPT ![key] = [data |-> pickle_dumps(value), ttl |-> ttl_seconds]]

\* RedisCache.set: SETEX when ttl_seconds is truthy, SET otherwise
redis_set(store, key, value, ttl_seconds) ==
    [store EXCEPT ![key] = [data |-> pickle_dumps(value), ttl |-> ttl_seconds]]

(***************************************************************************)
(* Planner (LLMQueryPlanner)                                               *)
(***************************************************************************)
QueryTypes == {"factual", "comparative", "timeline", "voting", "analytical"}
RetrievalStrategies == {"single_focus", "multi_entity", "chronological", "broad"}
ResponseDepths == {"brief", "standard", "comprehensive"}

\* IntentResult.default_factual(query); confidence in tenths
default_factual(text) ==
    [query_type |-> "factual", retrieval_strategy |-> "single_focus",
     expected_components |-> <<"text_block">>, rewritten_queries |-> <<text>>,
     response_depth |-> "standard", confidence |-> 5]

\* Structured outputs (PlannerOutputSchema) the planner's LLM may return
PlannerOutputs ==
    { [query_type |-> "comparative", retrieval_strategy |-> "multi_entity",
       expected_components |-> <<"text_block", "comparison">>,
       rewritten_queries |-> << <<"labor", "policy">>, <<"liberal", "policy">> >>,
       response_depth |-> "standard", confidence |-> 8],
      [query_type |-> "timeline", retrieval_strategy |-> "chronological",
       expected_components |-> <<>>, rewritten_queries |-> <<>>,
       response_depth |-> "verbose", confidence |-> 9],
      [query_type |-> "opinion", retrieval_strategy |-> "semantic",
       expected_components |-> <<"text_block">>,
       rewritten_queries |-> << <<"money", "bill">> >>,
       response_depth |-> "brief", confidence |-> 5] }

\* Outcomes of self.llm.ainvoke in analyze: the call raises, the structured
\* output does not parse (with_structured_output raises), or an output
PlannerLLM == PlannerOutputs \cup {[error |-> "llm_error"], [error |-> "parse_error"]}

\* variant: the values of the output are taken as they are
build_intent_result_uncoerced(data, original_query) ==
    [query_type |-> data.query_type, retrieval_strategy |-> data.retrieval_strategy,
     expected_components |-> data.expected_components,
     rewritten_queries |-> data.rewritten_queries,
     response_depth |-> data.response_depth, confidence |-> data.confidence]

\* LLMQueryPlanner._build_intent_result
build_intent_result(data, original_query) ==
    [query_type |-> IF data.query_type \in QueryTypes THEN data.query_type ELSE "factual",
     retrieval_strategy |->
        IF data.retrieval_strategy \in RetrievalStrategies
        THEN data.retrieval_strategy ELSE "single_focus",
     expected_components |->
        IF data.expected_components # <<>> THEN data.expected_components ELSE <<"text_block">>,
     rewritten_queries |->
        IF data.rewritten_queries # <<>> THEN data.rewritten_queries ELSE <<original_query>>,
     response_depth |->
        IF data.response_depth \in ResponseDepths THEN data.response_depth ELSE "standard",
     confidence |-> data.confidence]

\* LLMQueryPlanner.analyze: llm is the outcome of self.llm.ainvoke
analyze(text, llm) ==
    IF llm \in PlannerOutputs THEN build_intent_result(llm, text) ELSE default_factual(text)

(***************************************************************************)
(* Retriever (IntentDrivenRetriever) over the embedder and vector store    *)
(***************************************************************************)
\* The chunks of the vector store.  Chunks 2i-1 and 2i come from the same
\* document; chunks with an even id carry no metadata["date"].
Chunk(i) ==
    [id |-> i, document_id |-> (i + 1) \div 2,
     date |-> IF i % 2 = 0 THEN MissingDate ELSE 20240131 - i]

\* the store's similarity order for the j-th text searched by a request:
\* chunk 1 first for the first text, chunk 2 first for the others
Ranking(j) ==
    LET asc == [i \in 1..MaxChunks |-> Chunk(i)]
    IN IF j = 1 THEN asc ELSE Tail(asc) \o <<Head(asc)>>

\* Outcome of one embed_single + vector_store.search pair: the embedder
\* raises, the store raises, or the store answers with its n best chunks.
SearchOutcomes ==
    {[kind |-> "embed_error", n |-> 0], [kind |-> "search_error", n |-> 0]}
        \cup { [kind |-> "chunks", n |-> n] : n \in 0..MaxChunks }

SearchAnswer(j, out) == SubSeq(Ranking(j), 1, out.n)

\* sorted(chunks, key=date): a stable insertion sort
RECURSIVE InsertByDate(_, _)
InsertByDate(sorted, c) ==
    IF sorted = <<>> THEN <<c>>
    ELSE IF c.date < Head(sorted).date THEN <<c>> \o sorted
    ELSE <<Head(sorted)>> \o InsertByDate(Tail(sorted), c)

RECURSIVE SortedByDate(_)
SortedByDate(chunks) ==
    IF chunks = <<>> THEN <<>>
    ELSE InsertByDate(SortedByDate(SubSeq(chunks, 1, Len(chunks) - 1)), chunks[Len(chunks)])

RetrievalResult(chunks, strategy, coverage, warning) ==
    LET is_sufficient == Len(chunks) >= MinChunksForSufficiency
    IN [kind |-> "ok", chunks |-> chunks, strategy_used |-> strategy, coverage |-> coverage,
        is_sufficient |-> is_sufficient,
        warnings |-> IF is_sufficient THEN <<>> ELSE <<warning>>]

RetrievalRaised == [kind |-> "raise"]

\* _retrieve_single_focus / _retrieve_broad
retrieve_single(strategy, warning, out) ==
    IF out.kind # "chunks" THEN RetrievalRaised
    ELSE RetrievalResult(SearchAnswer(1, out), strategy, {}, warning)

\* _retrieve_chronological
retrieve_chronological(out) ==
    IF out.kind # "chunks" THEN RetrievalRaised
    ELSE RetrievalResult(SortedByDate(SearchAnswer(1, out)), "chronological", {},
                         "Few chronological events found")

\* what the task of one _search_single leaves for gather: the chunks the
\* store answered with, or the exception of the embedder or of the store
SearchResult(j, out) ==
    IF out.kind = "chunks" THEN [kind |-> "chunks", chunks |-> SearchAnswer(j, out)]
    ELSE [kind |-> out.kind]

\* the orders in which n concurrent tasks can complete
CompletionOrders(n) ==
    { order \in [1..n -> 1..n] : \A a, b \in 1..n : order[a] = order[b] => a = b }

\* the tasks with their results, in the order they completed
Completed(results, order) ==
    [j \in 1..Len(results) |-> [task |-> order[j], result |-> results[order[j]]]]

\* variant: the results in the order of completion (asyncio.as_completed)
gather_as_completed(completed) ==
    [j \in 1..Len(completed) |-> completed[j].result]

\* asyncio.gather(*search_tasks, return_exceptions=True): the result (or the
\* exception) of every task, in the order the tasks were passed
gather(completed) ==
    [i \in 1..Len(completed) |->
        (CHOOSE c \in { completed[j] : j \in 1..Len(completed) } : c.task = i).result]

\* the merge loop of _retrieve_multi_entity over results[i..]
RECURSIVE MergeDedupe(_, _, _, _)
MergeDedupe(results, i, all_chunks, seen_ids) ==
    IF i > Len(results) THEN all_chunks
    ELSE IF results[i].kind # "chunks"
         THEN MergeDedupe(results, i + 1, all_chunks, seen_ids)
    ELSE LET query_chunks == results[i].chunks
             fresh == { k \in 1..Len(query_chunks) :
                           /\ query_chunks[k].id \notin seen_ids
                           /\ \A m \in 1..(k - 1) : query_chunks[m].id # query_chunks[k].id }
             kept == SelectSeq([k \in 1..Len(query_chunks) |->
                                   [at |-> k, chunk |-> query_chunks[k]]],
                               LAMBDA e : e.at \in fresh)
         IN MergeDedupe(results, i + 1,
                        all_chunks \o [k \in 1..Len(kept) |-> kept[k].chunk],
                        seen_ids \cup { query_chunks[k].id : k \in fresh })

\* variant: a failed search is entered with no chunks
CoverageOfEveryQuery(rewritten, results) ==
    { <<rewritten[i],
        IF results[i].kind = "chunks" THEN Len(results[i].chunks) ELSE 0>> :
          i \in { k \in 1..Len(results) :
             \A m \in (k + 1)..Len(results) : rewritten[m] # rewritten[k] } }

\* coverage[rewritten_queries[i]] = len(query_chunks) / default_top_k, kept
\* as the pairs <<rewritten query, len(query_chunks)>>; a later equal
\* rewritten query overwrites an earlier one
Coverage(rewritten, results) ==
    { <<rewritten[i], Len(results[i].chunks)>> : i \in { k \in 1..Len(results) :
          /\ results[k].kind = "chunks"
          /\ \A m \in (k + 1)..Len(results) :
                ~(results[m].kind = "chunks" /\ rewritten[m] = rewritten[k]) } }

\* rewritten_queries = intent.rewritten_queries, or [query] when it is empty
SearchQueries(query, intent) ==
    IF intent.rewritten_queries # <<>> THEN intent.rewritten_queries ELSE <<query>>

\* _retrieve_multi_entity of a retriever with the given default_top_k, once
\* the search tasks have completed
retrieve_multi_entity(self, query, intent, completed) ==
    LET rewritten == SearchQueries(query, intent)
        results == gather(completed)
        all_chunks == MergeDedupe(results, 1, <<>>, {})
        chunks == SubSeq(all_chunks, 1, Min(Len(all_chunks), self.default_top_k * 2))
    IN RetrievalResult(chunks, "multi_entity", Coverage(rewritten, results),
                       "Limited coverage for some entities")

\* number of embed + search pairs retrieve issues for an intent
NumSearches(intent) ==
    IF intent.retrieval_strategy = "multi_entity"
    THEN Max(1, Len(intent.rewritten_queries)) ELSE 1

\* IntentDrivenRetriever.retrieve; outs[j] is the outcome of the j-th search
\* and order the order in which the searches complete
retrieve(text, intent, outs, order) ==
    CASE intent.retrieval_strategy = "multi_entity" ->
            retrieve_multi_entity(
                [default_top_k |-> DefaultTopK], text, intent,
                Completed([j \in 1..Len(outs) |-> SearchResult(j, outs[j])], order))
      [] intent.retrieval_strategy = "chronological" -> retrieve_chronological(outs[1])
      [] intent.retrieval_strategy = "broad" ->
            retrieve_single("broad", "Limited diverse content found", outs[1])
      [] OTHER -> retrieve_single("single_focus", "Few relevant documents found", outs[1])

\* RetrievalResult.context_texts: one text per chunk, named by the chunk id
context_texts(retrieval) == [i \in 1..Len(retrieval.chunks) |-> retrieval.chunks[i].id]

(***************************************************************************)
(* Extractor (LLMDataExtractor)                                            *)
(***************************************************************************)
\* ExtractionResult; completeness in tenths.  has_data: extracted_data is
\* a non-empty dict.
ExtractionResult(component_type, has_data, completeness, warning) ==
    [kind |-> "ok", component_type |-> component_type, has_data |-> has_data,
     completeness |-> completeness, warnings |-> warning]

\* ExtractionResult.empty(component_type, reason)
ExtractionEmpty(component_type, reason) ==
    ExtractionResult(component_type, FALSE, 0, <<reason>>)

\* ExtractionResult.is_complete
is_complete(e) == e.has_data /\ e.completeness >= 5

ExtractionRaised == [kind |-> "raise"]

\* Outcomes of one extract call: building the prompt raises (outside the
\* try), the structured LLM call raises, or it returns a schema object with
\* the given completeness.
ExtractorLLM ==
    {[kind |-> "prompt_error", completeness |-> 0], [kind |-> "llm_error", completeness |-> 0]}
        \cup { [kind |-> "data", completeness |-> c] : c \in {3, 5} }

\* LLMDataExtractor.extract; model_dump() of a schema object is a non-empty dict
extract(component_type, context, llm) ==
    IF context = <<>> THEN ExtractionEmpty(component_type, "No context available")
    ELSE IF llm.kind = "prompt_error" THEN ExtractionRaised
    ELSE IF llm.kind = "llm_error" THEN ExtractionEmpty(component_type, "llm_error")
    ELSE ExtractionResult(component_type, TRUE, llm.completeness, <<>>)

(***************************************************************************)
(* Raw components of the composer LLM's JSON                               *)
(***************************************************************************)
\* A JSON value of a raw component: a number, a string, null, or the key is
\* absent from the object
JAbsent == [t |-> "absent"]

JNull == [t |-> "null"]

JNum(n) == [t |-> "num", n |-> n]

JStr(s) == [t |-> "str", s |-> s]

\* dict.get(key, default)
get(d, key, default) == IF d[key] = JAbsent THEN default ELSE d[key]

\* the truth value Python gives to d.get(key)
Truthy(v) ==
    /\ v.t \notin {"absent", "null"}
    /\ v.t = "num" => v.n # 0
    /\ v.t = "str" => v.s # ""

\* the strings of the model that float() and int() accept, with their value
NumberOf == ("7" :> 7) @@ ("-2" :> (0 - 2)) @@ ("4" :> 4)

\* float(value) and int(value): the number, or TypeError / ValueError
Coerced(n) == [ok |-> TRUE, n |-> n]

NotCoerced == [ok |-> FALSE]

float(v) ==
    IF v.t = "num" THEN Coerced(v.n)
    ELSE IF v.t = "str" /\ v.s \in DOMAIN NumberOf THEN Coerced(NumberOf[v.s])
    ELSE NotCoerced

int(v) == float(v)

\* raw_type.lower().replace("-", "_").strip() on the type strings of the
\* model
NormalizedType ==
    ("chart" :> "chart") @@ ("Pie-Chart" :> "pie_chart") @@ ("comparison" :> "comparison")
        @@ ("Compare " :> "compare") @@ ("timeline" :> "timeline")
        @@ ("voting_breakdown" :> "voting_breakdown") @@ ("text_block" :> "text_block")
        @@ ("hologram" :> "hologram") @@ ("" :> "")

\* TYPE_ALIASES, for the normalized types of the model
TYPE_ALIASES == ("pie_chart" :> "chart") @@ ("compare" :> "comparison")

\* constraints.py: the constraint definitions
CHART_MIN_DATA_POINTS == 2

PIE_MAX_SLICES == 7

LINE_MIN_DATA_POINTS == 3

COMPARISON_MIN_ITEMS == 2

COMPARISON_MIN_ATTRIBUTES == 1

TIMELINE_MIN_EVENTS == 2

\* ValidationResult.valid() and ValidationResult.invalid(violation, ..., suggestion)
ValidationValid == [is_valid |-> TRUE, violation |-> NoneStr, suggestion |-> NoneStr]

ValidationInvalid(violation, suggestion) ==
    [is_valid |-> FALSE, violation |-> violation, suggestion |-> suggestion]

\* a validator raised; validate_component turns it into INVALID_STRUCTURE
ValidatorRaised == [is_valid |-> "raise"]

RECURSIVE total_points(_)
total_points(series) ==
    IF series = <<>> THEN 0 ELSE Len(Head(series).data) + total_points(Tail(series))

\* a data point whose value is missing or is not accepted by float()
BadValue(point) ==
    \/ get(point, "value", JNull) = JNull
    \/ ~float(point.value).ok

\* validate_chart
validate_chart(data) ==
    LET series == data.series
        chart_type == get(data, "chart_type", JStr("bar"))
    IN IF series = <<>> THEN ValidationInvalid("insufficient_data", "text_block")
       ELSE IF total_points(series) < CHART_MIN_DATA_POINTS
            THEN ValidationInvalid("insufficient_data", "text_block")
       ELSE IF \E i \in 1..Len(series) : \E k \in 1..Len(series[i].data) :
                   BadValue(series[i].data[k])
            THEN ValidationInvalid("invalid_structure", NoneStr)
       ELSE IF chart_type \in {JStr("pie"), JStr("doughnut")}
            THEN LET points == series[1].data
                 IN IF Len(points) > PIE_MAX_SLICES THEN ValidationInvalid("poor_fit", "bar")
                    ELSE IF \E k \in 1..Len(points) : float(points[k].value).n < 0
                         THEN ValidationInvalid("poor_fit", "bar")
                    ELSE ValidationValid
       ELSE IF chart_type = JStr("line")
            THEN IF \E i \in 1..Len(series) : Len(series[i].data) < LINE_MIN_DATA_POINTS
                 THEN ValidationInvalid("poor_fit", "bar")
                 ELSE ValidationValid
       ELSE ValidationValid

\* valid_items: the items with a name
valid_items(data) == SelectSeq(data.items, LAMBDA i : Truthy(i.name))

\* valid_attributes: the attributes with a name and values
valid_attributes(data) ==
    SelectSeq(data.attributes, LAMBDA a : Truthy(a.name) /\ a.values # <<>>)

\* validate_comparison; a number of values that differs from the number of
\* items is logged only
validate_comparison(data) ==
    IF Len(valid_items(data)) < COMPARISON_MIN_ITEMS
    THEN ValidationInvalid("insufficient_data", "text_block")
    ELSE IF Len(valid_attributes(data)) < COMPARISON_MIN_ATTRIBUTES
         THEN ValidationInvalid("insufficient_data", "text_block")
    ELSE ValidationValid

\* valid_events: the events with a date or a label
valid_events(data) == SelectSeq(data.events, LAMBDA e : Truthy(e.date) \/ Truthy(e.label))

\* validate_timeline
validate_timeline(data) ==
    IF Len(valid_events(data)) < TIMELINE_MIN_EVENTS
    THEN ValidationInvalid("insufficient_data", "text_block")
    ELSE ValidationValid

\* any(int(p.get("votes_for", 0)) > 0 or int(p.get("votes_against", 0)) > 0
\*     for p in party_breakdown if p.get("party")): "true", "false" or
\* "raise"; any() stops at the first party with votes
RECURSIVE has_party_votes(_)
has_party_votes(party_breakdown) ==
    IF party_breakdown = <<>> THEN "false"
    ELSE LET p == Head(party_breakdown)
             votes_for == int(get(p, "votes_for", JNum(0)))
             votes_against == int(get(p, "votes_against", JNum(0)))
         IN IF ~Truthy(p.party) THEN has_party_votes(Tail(party_breakdown))
            ELSE IF ~votes_for.ok THEN "raise"
            ELSE IF votes_for.n > 0 THEN "true"
            ELSE IF ~votes_against.ok THEN "raise"
            ELSE IF votes_against.n > 0 THEN "true"
            ELSE has_party_votes(Tail(party_breakdown))

\* validate_voting_breakdown
validate_voting_breakdown(data) ==
    LET total_for == int(get(data, "total_for", JNum(0)))
        total_against == int(get(data, "total_against", JNum(0)))
        party == has_party_votes(data.party_breakdown)
    IN IF ~total_for.ok \/ ~total_against.ok \/ party = "raise" THEN ValidatorRaised
       ELSE IF ~(total_for.n > 0 \/ total_against.n > 0) /\ party = "false"
            THEN ValidationInvalid("insufficient_data", "text_block")
       ELSE ValidationValid

\* validate_text_block: content is a string here
validate_text_block(data) ==
    IF get(data, "content", JStr("")).s = ""
    THEN ValidationInvalid("insufficient_data", NoneStr)
    ELSE ValidationValid

\* validate_component: the validator of the type, if there is one; an
\* exception of the validator makes the component invalid
validate_component(component_type, data) ==
    LET result == CASE component_type = "chart" -> validate_chart(data)
                    [] component_type = "comparison" -> validate_comparison(data)
                    [] component_type = "timeline" -> validate_timeline(data)
                    [] component_type = "voting_breakdown" -> validate_voting_breakdown(data)
                    [] component_type = "text_block" -> validate_text_block(data)
                    [] OTHER -> ValidationValid
    IN IF result = ValidatorRaised THEN ValidationInvalid("invalid_structure", NoneStr)
       ELSE result

\* Component.create of a parsed component
Created(id, type, body) ==
    [id |-> id, type |-> type, level |-> NoneStr, title |-> NoneStr, body |-> body]

\* what parse_component gives: a component, None, or an exception
ParsedComponent(c) == [kind |-> "component", component |-> c]

ParsedNone(validation) == [kind |-> "none", validation |-> validation]

ParseRaised == [kind |-> "raise"]

\* the chart branch of parse_component: series without data points are left
\* out
parse_chart(data, id) ==
    LET series == SelectSeq(data.series, LAMBDA s : s.data # <<>>)
        values == [i \in 1..Len(series) |->
                      [k \in 1..Len(series[i].data) |->
                          float(get(series[i].data[k], "value", JNum(0))).n]]
    IN IF series = <<>> THEN ParsedNone(ValidationValid)
       ELSE ParsedComponent(Created(id, "chart",
                [chart_type |-> get(data, "chart_type", JStr("bar")).s, series |-> values]))

\* the comparison branch of parse_component
parse_comparison(data, id) ==
    LET items == valid_items(data)
        attributes == valid_attributes(data)
    IN IF items = <<>> \/ attributes = <<>> THEN ParsedNone(ValidationValid)
       ELSE ParsedComponent(Created(id, "comparison",
                [items |-> [i \in 1..Len(items) |-> items[i].name.s],
                 attributes |-> [i \in 1..Len(attributes) |->
                                    [name |-> attributes[i].name.s,
                                     values |-> attributes[i].values]]]))

\* the timeline branch of parse_component: int(e.get("significance", 3)) is
\* evaluated for every event with a date or a label
parse_timeline(data, id) ==
    LET events == valid_events(data)
        significance == [i \in 1..Len(events) |-> int(get(events[i], "significance", JNum(3)))]
    IN IF \E i \in 1..Len(events) : ~significance[i].ok THEN ParseRaised
       ELSE IF events = <<>> THEN ParsedNone(ValidationValid)
       ELSE ParsedComponent(Created(id, "timeline",
                [i \in 1..Len(events) |-> significance[i].n]))

\* the voting_breakdown branch of parse_component: int() of every count of
\* every party with a name, and of the three totals
parse_voting_breakdown(data, id) ==
    LET parties == SelectSeq(data.party_breakdown, LAMBDA p : Truthy(p.party))
        counts_of(p) == { int(get(p, "votes_for", JNum(0))),
                          int(get(p, "votes_against", JNum(0))),
                          int(get(p, "abstentions", JNum(0))) }
        totals == { int(get(data, "total_for", JNum(0))),
                    int(get(data, "total_against", JNum(0))),
                    int(get(data, "total_abstentions", JNum(0))) }
    IN IF \/ \E i \in 1..Len(parties) : \E c \in counts_of(parties[i]) : ~c.ok
          \/ \E c \in totals : ~c.ok
       THEN ParseRaised
       ELSE ParsedComponent(Created(id, "voting_breakdown",
                [total_for |-> int(get(data, "total_for", JNum(0))).n,
                 total_against |-> int(get(data, "total_against", JNum(0))).n,
                 parties |-> Len(parties)]))

\* parse_component: raw_type.lower() raises when the type is not a string
parse_component(data, id) ==
    LET raw_type == get(data, "type", JStr(""))
    IN IF raw_type.t # "str" THEN ParseRaised
       ELSE LET normalized_type == NormalizedType[raw_type.s]
                comp_type == IF normalized_type \in DOMAIN TYPE_ALIASES
                             THEN TYPE_ALIASES[normalized_type] ELSE normalized_type
                validation == validate_component(comp_type, data)
            IN IF ~validation.is_valid THEN ParsedNone(validation)
               ELSE CASE comp_type = "text_block" ->
                            ParsedComponent(Created(id, "text_block", data.content.s))
                      [] comp_type = "chart" -> parse_chart(data, id)
                      [] comp_type = "timeline" -> parse_timeline(data, id)
                      [] comp_type = "comparison" -> parse_comparison(data, id)
                      [] comp_type = "voting_breakdown" -> parse_voting_breakdown(data, id)
                      [] OTHER -> ParsedNone(ValidationValid)

(***************************************************************************)
(* Composer (LLMResponseComposer)                                          *)
(***************************************************************************)
\* what the loop appends for one raw component: the component, if
\* parse_component returned one
Appended(parsed) == IF parsed.kind = "component" THEN <<parsed.component>> ELSE <<>>

\* the inner loop of _build_layout_from_data over one section; n uuids
\* have been drawn by request p so far
RECURSIVE ParseSection(_, _, _)
ParseRest(c, raws, p, n) == c \o ParseSection(raws, p, n + Len(c))

ParseSection(raws, p, n) ==
    IF raws = <<>> THEN <<>>
    ELSE ParseRest(Appended(parse_component(Head(raws), Uuid(p, n + 1))), Tail(raws), p, n)

\* LLMResponseComposer._build_layout_from_data: the outer loop; cs are the
\* components of the section at hand
RECURSIVE BuildSections(_, _, _)
BuildRest(cs, sections_data, p, n) ==
    LET rest == BuildSections(sections_data, p, n + Len(cs))
    IN [sections |->
           (IF cs = <<>> THEN <<>> ELSE <<Section(CompIds(cs))>>) \o rest.sections,
        components |-> cs \o rest.components]

BuildSections(sections_data, p, n) ==
    IF sections_data = <<>> THEN [sections |-> <<>>, components |-> <<>>]
    ELSE BuildRest(ParseSection(Head(sections_data), p, n), Tail(sections_data), p, n)

\* variant: a section is appended even when none of its components is valid
RECURSIVE BuildSectionsKeepEmpty(_, _, _)
BuildRestKeepEmpty(cs, sections_data, p, n) ==
    LET rest == BuildSectionsKeepEmpty(sections_data, p, n + Len(cs))
    IN [sections |-> <<Section(CompIds(cs))>> \o rest.sections,
        components |-> cs \o rest.components]

BuildSectionsKeepEmpty(sections_data, p, n) ==
    IF sections_data = <<>> THEN [sections |-> <<>>, components |-> <<>>]
    ELSE BuildRestKeepEmpty(ParseSection(Head(sections_data), p, n), Tail(sections_data), p, n)

\* layout = Layout(title=..., sections=sections); return layout, components
LayoutOf(built) ==
    [layout |-> Layout("llm", built.sections), components |-> built.components]

build_layout_from_data_keep_empty(data, p, n) == LayoutOf(BuildSectionsKeepEmpty(data, p, n))

build_layout_from_data(data, p, n) == LayoutOf(BuildSections(data, p, n))

\* LLMResponseComposer._fallback_layout
fallback_layout(p, n) ==
    LET text == TextBlock(Uuid(p, n + 1), "raw_content")
    IN [layout |-> Layout(NoneStr, <<Section(<<text.id>>)>>), components |-> <<text>>]

\* the component types of the extractions with completeness < 0.5
low_completeness(extractions) ==
    LET low == SelectSeq(extractions, LAMBDA e : e.completeness < 5)
    IN [i \in 1..Len(low) |-> low[i].component_type]

\* warning_msg: the message of the notice joins these types; the text of a
\* message is not kept in the component
warning_msg(extractions) == low_completeness(extractions)

\* the notice of _add_extraction_warnings
DataAvailabilityNotice(id) == Notice(id, "info", "Data Availability")

\* variant: the notice is appended after the parsed components
add_extraction_warnings_at_end(components, extractions, p, n) ==
    IF low_completeness(extractions) # <<>>
    THEN Append(components, DataAvailabilityNotice(Uuid(p, n + 1)))
    ELSE components

\* LLMResponseComposer._add_extraction_warnings
add_extraction_warnings(components, extractions, p, n) ==
    IF low_completeness(extractions) # <<>>
    THEN ListInsert(components, Min(1, Len(components)),
                    DataAvailabilityNotice(Uuid(p, n + 1)))
    ELSE components

NoUsage == [input_tokens |-> 0, output_tokens |-> 0]

\* LLMResponseComposer._insufficient_data_response
composer_insufficient_data_response(p, n) ==
    LET notice == Notice(Uuid(p, n + 1), "warning", "Insufficient Information")
        text == TextBlock(Uuid(p, n + 2), "refine_search")
    IN [kind |-> "insufficient",
        layout |-> Layout("Unable to Answer Query", <<Section(<<notice.id, text.id>>)>>),
        components |-> <<notice, text>>, usage |-> NoUsage, llm_calls |-> 0,
        prompt |-> <<>>]

\* LLMResponseComposer._fallback_response
fallback_response(p, n) ==
    LET text == TextBlock(Uuid(p, n + 1), "error_occurred")
    IN [kind |-> "fallback",
        layout |-> Layout("Error", <<Section(<<text.id>>)>>),
        components |-> <<text>>, usage |-> NoUsage]

\* raw components of the documents: a text block, a chart of one data
\* point, a comparison of two items, a timeline of two events
TextRaw == [type |-> JStr("text_block"), content |-> JStr("summary")]

ChartOfOnePoint ==
    [type |-> JStr("chart"), chart_type |-> JStr("bar"),
     series |-> <<[data |-> <<[value |-> JNum(2)]>>]>>]

ComparisonOfTwo ==
    [type |-> JStr("comparison"),
     items |-> <<[name |-> JStr("A")], [name |-> JStr("B")]>>,
     attributes |-> <<[name |-> JStr("cost"), values |-> <<JStr("v"), JStr("w")>>]>>]

TimelineOfTwo(significance) ==
    [type |-> JStr("timeline"),
     events |-> <<[date |-> JAbsent, label |-> JStr("first reading"),
                   significance |-> JNum(2)],
                  [date |-> JAbsent, label |-> JStr("royal assent"),
                   significance |-> significance]>>]

VoteOf(abstentions) ==
    [type |-> JStr("voting_breakdown"), total_for |-> JNum(3), total_against |-> JNum(2),
     total_abstentions |-> abstentions, party_breakdown |-> <<>>]

\* Responses of the composer's LLM: the JSON documents it may return, as the
\* list of their sections (each the list of its raw components)
ComposerJson ==
    { << <<TextRaw, ChartOfOnePoint>>, <<ChartOfOnePoint>>, <<ComparisonOfTwo>> >>,
      << <<ChartOfOnePoint>> >> }

\* documents tried on compose on its own: with a timeline whose
\* significance is an integer, or is not; a vote whose abstentions are not a
\* number; a component whose type is a number; and an object without sections
ComposerJsonAlone ==
    ComposerJson
        \cup { << <<TextRaw, TimelineOfTwo(s)>>, <<ComparisonOfTwo>> >> :
                 s \in {JNum(4), JStr("high")} }
        \cup { << <<TextRaw>>, <<VoteOf(JStr("n/a")), ComparisonOfTwo>> >>,
               << <<[type |-> JNum(1)], TextRaw>> >>,
               <<>> }

\* response.usage_metadata: absent (None) or the token counts
Usage == [input_tokens |-> 1200, output_tokens |-> 400]

\* Outcomes of a compose call that reaches the LLM: _build_prompt raises
\* (outside the try); llm.ainvoke raises; or it returns text that is not
\* JSON, JSON that is not an object, or one of ComposerJson
ComposerResponses(documents) ==
    {[kind |-> "prompt_error", data |-> <<>>, usage |-> NoUsage],
     [kind |-> "llm_error", data |-> <<>>, usage |-> NoUsage]}
        \cup { [kind |-> k, data |-> <<>>, usage |-> u] :
                 k \in {"not_json", "json_not_object"}, u \in {NoUsage} }
        \cup { [kind |-> "json", data |-> d, usage |-> u] :
                 d \in documents, u \in {Usage} }

ComposerLLM == ComposerResponses(ComposerJson)

\* parse_component raises for a raw component of the document
Raising(sections_data) ==
    \E i \in 1..Len(sections_data) : \E k \in 1..Len(sections_data[i]) :
        parse_component(sections_data[i][k], Nil) = ParseRaised

\* LLMResponseComposer._parse_response: json.loads raising JSONDecodeError
\* gives the fallback layout; data.get on a non-dict raises AttributeError
\* and parse_component may raise ValueError, TypeError or AttributeError,
\* none of which _parse_response catches
parse_response(llm, p, n) ==
    IF llm.kind = "not_json" THEN fallback_layout(p, n)
    ELSE IF llm.kind = "json_not_object" \/ Raising(llm.data) THEN ParseRaised
    ELSE build_layout_from_data(llm.data, p, n)

\* variant: every extraction goes into the prompt
valid_extractions_all(extractions) == extractions

\* valid_extractions = [e for e in extractions if e.is_complete()]
valid_extractions(extractions) == SelectSeq(extractions, is_complete)

\* _build_prompt: the extractions rendered into the prompt, by component type
build_prompt(extractions) ==
    [i \in 1..Len(extractions) |-> extractions[i].component_type]

\* LLMResponseComposer.compose; llm_calls counts the calls of llm.ainvoke,
\* prompt is the prompt it was given and warning_msg the message of the
\* low-completeness notice
\* the try block of compose after llm.ainvoke returned: parsed is what
\* _parse_response gave, or that it raised
after_response(parsed, extractions, llm, p, n) ==
    IF parsed = ParseRaised THEN fallback_response(p, n)
    ELSE [kind |-> IF llm.kind = "json" THEN "composed" ELSE "raw",
          layout |-> parsed.layout,
          components |->
              add_extraction_warnings(parsed.components, extractions, p,
                                      n + Len(parsed.components)),
          usage |-> llm.usage, warning_msg |-> warning_msg(extractions)]

compose(extractions, llm, p, n) ==
    LET valid == valid_extractions(extractions)
        asked == [llm_calls |-> 1, prompt |-> build_prompt(valid)]
    IN IF valid = <<>> THEN composer_insufficient_data_response(p, n)
       ELSE IF llm.kind = "prompt_error" THEN [kind |-> "raise"]
       ELSE IF llm.kind = "llm_error" THEN fallback_response(p, n) @@ asked
       ELSE after_response(parse_response(llm, p, n), extractions, llm, p, n) @@ asked

(***************************************************************************)
(* Verifier (LLMResponseVerifier)                                          *)
(***************************************************************************)
\* VerificationResult; unsupported_claims is the list of the claims'
\* severities
VerificationResult(is_valid, unsupported_claims, warnings) ==
    [kind |-> "ok", is_valid |-> is_valid, unsupported_claims |-> unsupported_claims,
     warnings |-> warnings]

ClaimLists == { <<>>, <<"warning">>, <<"warning", "error">> }

\* Outcomes of a verify call with context: _serialize_response raises
\* (outside the try); llm.ainvoke raises; it returns text that does not
\* parse; or it returns {is_valid, unsupported_claims}
VerifierLLM ==
    {[kind |-> "serialize_error", is_valid |-> TRUE, claims |-> <<>>],
     [kind |-> "llm_error", is_valid |-> TRUE, claims |-> <<>>],
     [kind |-> "parse_error", is_valid |-> TRUE, claims |-> <<>>]}
        \cup { [kind |-> "json", is_valid |-> v, claims |-> c] :
                 v \in BOOLEAN, c \in ClaimLists }

\* LLMResponseVerifier.verify
verify(context, llm) ==
    IF context = <<>> THEN VerificationResult(TRUE, <<>>, <<>>)
    ELSE IF llm.kind = "serialize_error" THEN [kind |-> "raise"]
    ELSE IF llm.kind = "llm_error" THEN VerificationResult(TRUE, <<>>, <<"Verification skipped">>)
    ELSE IF llm.kind = "parse_error"
         THEN VerificationResult(TRUE, <<>>, <<"Verification parse error">>)
    ELSE VerificationResult(llm.is_valid, llm.claims, <<>>)

(***************************************************************************)
(* Orchestrator (ExecuteQuery): helpers                                    *)
(***************************************************************************)
ExecuteQueryResult(result, cost) == [kind |-> "return", result |-> result, cost |-> cost]

\* execute raised to its caller
Raised == [kind |-> "raise"]

\* variant: the suggestions come before the notice
insufficient_data_response_swapped(p, n) ==
    LET notice == Notice(Uuid(p, n + 1), "warning", "Limited Information")
        text == TextBlock(Uuid(p, n + 2), "suggestions")
    IN RAGResult(Layout("Unable to Answer Query", <<Section(<<text.id, notice.id>>)>>),
                 <<text, notice>>, QueryMetadata(0, 0, "none"), <<>>, FALSE, NoCost)

\* ExecuteQuery._insufficient_data_response
insufficient_data_response(p, n) ==
    LET notice == Notice(Uuid(p, n + 1), "warning", "Limited Information")
        text == TextBlock(Uuid(p, n + 2), "suggestions")
    IN RAGResult(Layout("Unable to Answer Query", <<Section(<<notice.id, text.id>>)>>),
                 <<notice, text>>, QueryMetadata(0, 0, "none"), <<>>, FALSE, NoCost)

\* variant: the notice takes the place of the component at the index
filter_unsupported_claims_overwrite(components, verification, p, n) ==
    LET errors == SelectSeq(verification.unsupported_claims, LAMBDA sev : sev = "error")
        at == Min(1, Len(components))
    IN IF verification.unsupported_claims = <<>> THEN components
       ELSE IF errors # <<>>
            THEN SubSeq(components, 1, at)
                    \o <<Notice(Uuid(p, n + 1), "warning", "Verification Warning")>>
                    \o SubSeq(components, at + 2, Len(components))
            ELSE components

\* ExecuteQuery._filter_unsupported_claims
filter_unsupported_claims(components, verification, p, n) ==
    LET errors == SelectSeq(verification.unsupported_claims, LAMBDA sev : sev = "error")
    IN IF verification.unsupported_claims = <<>> THEN components
       ELSE IF errors # <<>>
            THEN ListInsert(components, Min(1, Len(components)),
                            Notice(Uuid(p, n + 1), "warning", "Verification Warning"))
            ELSE components

\* variant: the layout has no section for the notice
error_response_no_section(p, n) ==
    LET notice == Notice(Uuid(p, n + 1), "warning", "Error")
    IN ExecuteQueryResult(
           RAGResult(Layout("Error Processing Query", <<>>),
                     <<notice>>, QueryMetadata(0, 0, "error"), <<>>, FALSE, NoCost),
           CostZero)

\* ExecuteQuery._error_response
error_response(p, n) ==
    LET notice == Notice(Uuid(p, n + 1), "warning", "Error")
    IN ExecuteQueryResult(
           RAGResult(Layout("Error Processing Query", <<Section(<<notice.id>>)>>),
                     <<notice>>, QueryMetadata(0, 0, "error"), <<>>, FALSE, NoCost),
           CostZero)

\* ExecuteQuery._aggregate_sources: one SourceReference per document, in
\* the order of first occurrence (dict insertion order)
RECURSIVE aggregate_sources(_)
aggregate_sources(chunks) ==
    IF chunks = <<>> THEN <<>>
    ELSE LET first == aggregate_sources(SubSeq(chunks, 1, Len(chunks) - 1))
             doc_id == chunks[Len(chunks)].document_id
         IN IF \E i \in 1..Len(first) : first[i].document_id = doc_id
            THEN first ELSE first \o <<[document_id |-> doc_id]>>

\* len(set(c.document_id for c in chunks))
DistinctDocuments(chunks) == Cardinality({ chunks[i].document_id : i \in 1..Len(chunks) })

\* the cost of a completed run (use_cases.py, "Calculate cost")
\* the arguments execute passes to CostBreakdown.calculate
RunCounts(q, it, usage) ==
    [embedding_tokens |-> Len(q.text) * Len(it.rewritten_queries),
     llm_input_tokens |-> usage.input_tokens,
     llm_output_tokens |-> usage.output_tokens,
     vector_queries |->
        IF it.retrieval_strategy = "multi_entity" THEN Len(it.rewritten_queries) ELSE 1]

RunFloatErrors(q, it, usage) ==
    LET c == RunCounts(q, it, usage)
    IN FloatErrorsFor(c.embedding_tokens, c.llm_input_tokens, c.llm_output_tokens,
                      c.vector_queries, CostMarginTenths)

RunCost(q, it, usage, float_error) ==
    LET c == RunCounts(q, it, usage)
    IN calculate(c.embedding_tokens, c.llm_input_tokens, c.llm_output_tokens,
                 c.vector_queries, CostMarginTenths, float_error)

(***************************************************************************)
(* State                                                                   *)
(***************************************************************************)
VARIABLES
    verifier,      \* ExecuteQuery.verifier is not None
    cache,         \* Redis: key -> the entry held (Absent for none)
    pc,            \* per request: the await execute is at
    query,         \* per request: the Query passed to execute
    cached,        \* per request: what cache.get returned (Unset for None)
    intent,        \* per request: the planner's IntentResult
    retrieval,     \* per request: the retriever's RetrievalResult
    extractions,   \* per request: the gathered ExtractionResults
    composed,      \* per request: what composer.compose returned
    verification,  \* per request: what verifier.verify returned
    components,    \* per request: the local variable components of execute
    uuids,         \* per request: number of uuids drawn by Component.create
    calls,         \* per request: the collaborator calls made, in order
    stored,        \* per request: the value it wrote to Redis, or Nil
    path,          \* per request: the return statement execute left through
    ret,           \* per request: what execute returned (or that it raised)
    answer,        \* per request: what the collaborators of the stage just
                   \* awaited did (the planner's LLM, the searches)
    counts,        \* the arguments of a call of CostBreakdown.calculate
    bills,         \* what calculate returned for them, with and without margin
    job,           \* the Job object IngestDocument.execute works on
    job_store,     \* what the job store holds for that job (Unset: nothing)
    ingest,        \* IngestDocument.execute: its arguments, the await it is
                   \* at, how the call just made ended and how execute ended
    search,        \* a multi_entity retrieval on its own: the retriever, the
                   \* query, the embedder calls and the searches completed
    found,         \* the RetrievalResult it returned
    comp_data,     \* a raw component object handed to parse_component
    component,     \* what parse_component made of it
    compose_args,  \* a call of compose on its own: the extractions it is
                   \* given and what its LLM does
    compose_result \* what that call returned

vars == <<verifier, cache, pc, query, cached, intent, retrieval, extractions, composed,
          verification, components, uuids, calls, stored, path, ret, answer,
          counts, bills, job, job_store, ingest, search, found, comp_data, component,
          compose_args, compose_result>>

\* the state of a document ingestion
ingest_vars == <<job, job_store, ingest>>

\* the state of parse_component on its own
component_vars == <<comp_data, component>>

\* the state of compose on its own
composer_vars == <<compose_args, compose_result>>

\* the state outside the query pipeline, which execute does not touch
others == <<counts, bills, ingest_vars, search, found, component_vars, composer_vars>>

\* the state of CostBreakdown.calculate and of the retriever on their own
cost_vars == <<counts, bills>>
retriever_vars == <<search, found>>

Unset == [kind |-> "unset"]

\* no ingestion under way
IngestIdle == [pc |-> "idle"]

InitPipeline ==
    /\ verifier \in BOOLEAN
    /\ cache = [k \in CacheKeys |-> Absent]
    /\ pc = [p \in Requests |-> "idle"]
    /\ query = [p \in Requests |-> Unset]
    /\ cached = [p \in Requests |-> Unset]
    /\ intent = [p \in Requests |-> Unset]
    /\ retrieval = [p \in Requests |-> Unset]
    /\ extractions = [p \in Requests |-> <<>>]
    /\ composed = [p \in Requests |-> Unset]
    /\ verification = [p \in Requests |-> Unset]
    /\ components = [p \in Requests |-> <<>>]
    /\ uuids = [p \in Requests |-> 0]
    /\ calls = [p \in Requests |-> <<>>]
    /\ stored = [p \in Requests |-> Nil]
    /\ path = [p \in Requests |-> "none"]
    /\ ret = [p \in Requests |-> Unset]
    /\ answer = [p \in Requests |-> Unset]

Init ==
    /\ InitPipeline
    /\ counts = Unset
    /\ bills = Unset
    /\ job = Unset
    /\ job_store = Unset
    /\ ingest = IngestIdle
    /\ search = Unset
    /\ found = Unset
    /\ comp_data = Unset
    /\ component = Unset
    /\ compose_args = Unset
    /\ compose_result = Unset

(***************************************************************************)
(* Orchestrator (ExecuteQuery.execute): one action per await               *)
(***************************************************************************)
Called(p, name) == calls' = [calls EXCEPT ![p] = Append(@, name)]

\* variant: the hit is charged the cost stored with the result
cache_hit_result_charged(hit) == ExecuteQueryResult(hit, hit.cost)

\* return ExecuteQueryResult(result=cached, cost=CostBreakdown.zero())
cache_hit_result(hit) == ExecuteQueryResult(hit, CostZero)

\* variant: the metadata of _insufficient_data_response is kept
insufficient_metadata_zero(r) == QueryMetadata(0, 0, "unknown")

\* the metadata execute gives the insufficient-data response
insufficient_metadata(r) == QueryMetadata(0, Len(r.chunks), "unknown")

\* variant: the claims are filtered whatever is_valid says
apply_verification_always(comps, v, p, n) == filter_unsupported_claims(comps, v, p, n)

\* Step 6 of execute once verify has returned
apply_verification(comps, v, p, n) ==
    IF ~v.is_valid THEN filter_unsupported_claims(comps, v, p, n) ELSE comps

\* except Exception: return self._error_response(query, str(e), start_time)
ReturnError(p) ==
    /\ ret' = [ret EXCEPT ![p] = error_response(p, uuids[p])]
    /\ uuids' = [uuids EXCEPT ![p] = @ + 1]
    /\ path' = [path EXCEPT ![p] = "error"]
    /\ pc' = [pc EXCEPT ![p] = "done"]
    /\ intent' = [intent EXCEPT ![p] = Unset]
    /\ retrieval' = [retrieval EXCEPT ![p] = Unset]
    /\ extractions' = [extractions EXCEPT ![p] = <<>>]
    /\ composed' = [composed EXCEPT ![p] = Unset]
    /\ verification' = [verification EXCEPT ![p] = Unset]
    /\ components' = [components EXCEPT ![p] = <<>>]

\* a request arrives: execute(query) is called and computes cache_key
Start(p) ==
    /\ pc[p] = "idle"
    /\ \E q \in Queries : query' = [query EXCEPT ![p] = q]
    /\ pc' = [pc EXCEPT ![p] = "cache_get"]
    /\ UNCHANGED <<others, verifier, cache, cached, intent, retrieval, extractions, composed,
                   verification, components, uuids, calls, stored, path, ret, answer>>

\* cached = await self.cache.get(cache_key), outside the try
CacheGet(p) ==
    /\ pc[p] = "cache_get"
    /\ Called(p, "cache.get")
    /\ \E redis \in {"ok", "error"} :
          IF redis = "error"
          THEN /\ ret' = [ret EXCEPT ![p] = Raised]
               /\ path' = [path EXCEPT ![p] = "raised"]
               /\ pc' = [pc EXCEPT ![p] = "done"]
               /\ UNCHANGED cached
          ELSE LET data == redis_get(cache, query_key(query[p]))
               IN IF data # Nil
                  THEN /\ cached' = [cached EXCEPT ![p] = pickle_loads(data)]
                       /\ ret' = [ret EXCEPT ![p] = cache_hit_result(pickle_loads(data))]
                       /\ path' = [path EXCEPT ![p] = "hit"]
                       /\ pc' = [pc EXCEPT ![p] = "done"]
                  ELSE /\ pc' = [pc EXCEPT ![p] = "plan"]
                       /\ UNCHANGED <<cached, ret, path>>
    /\ UNCHANGED <<others, verifier, cache, query, intent, retrieval, extractions, composed,
                   verification, components, uuids, stored, answer>>

\* intent = await self.planner.analyze(query.text)
Plan(p) ==
    /\ pc[p] = "plan"
    /\ Called(p, "planner.analyze")
    /\ \E llm \in PlannerLLM \cup {[error |-> "raise"]} :
          /\ answer' = [answer EXCEPT ![p] = llm]
          /\ IF llm = [error |-> "raise"]
             THEN ReturnError(p)
             ELSE /\ intent' = [intent EXCEPT ![p] = analyze(query[p].text, llm)]
                  /\ pc' = [pc EXCEPT ![p] = "retrieve"]
                  /\ UNCHANGED <<retrieval, extractions, composed, verification,
                                 components, uuids, path, ret>>
    /\ UNCHANGED <<others, verifier, cache, query, cached, stored>>

\* retrieval = await self.retriever.retrieve(query.text, intent), and the
\* sufficiency check
Retrieve(p) ==
    /\ pc[p] = "retrieve"
    /\ Called(p, "retriever.retrieve")
    /\ \E outs \in [1..NumSearches(intent[p]) -> SearchOutcomes],
          order \in CompletionOrders(NumSearches(intent[p])) :
          LET r == retrieve(query[p].text, intent[p], outs, order)
          IN /\ answer' = [answer EXCEPT ![p] = [searches |-> outs]]
             /\ IF r.kind = "raise"
                THEN ReturnError(p)
                ELSE /\ retrieval' = [retrieval EXCEPT ![p] = r]
                     /\ UNCHANGED <<extractions, composed, verification, components>>
                     /\ IF ~r.is_sufficient
                        THEN /\ ret' = [ret EXCEPT ![p] =
                                   ExecuteQueryResult(
                                       [insufficient_data_response(p, uuids[p])
                                           EXCEPT !.metadata = insufficient_metadata(r)],
                                       CostZero)]
                             /\ uuids' = [uuids EXCEPT ![p] = @ + 2]
                             /\ path' = [path EXCEPT ![p] = "insufficient"]
                             /\ pc' = [pc EXCEPT ![p] = "done"]
                             /\ intent' = [intent EXCEPT ![p] = Unset]
                        ELSE /\ pc' = [pc EXCEPT ![p] = "extract"]
                             /\ UNCHANGED <<intent, uuids, path, ret>>
    /\ UNCHANGED <<others, verifier, cache, query, cached, stored>>

\* variant: the join ends with the first extraction that completes
GatherFirstCompleted(results) == \E i \in 1..Len(results) : results[i] # Unset

\* asyncio.gather returns once every task it was given has completed
GatherJoined(results) == \A i \in 1..Len(results) : results[i] # Unset

\* extraction_tasks is built and asyncio.gather(*extraction_tasks) starts
\* every extractor.extract; none has completed yet
Extract(p) ==
    /\ pc[p] = "extract"
    /\ LET types == intent[p].expected_components
           pending == [i \in 1..Len(types) |-> Unset]
       IN /\ calls' = [calls EXCEPT ![p] =
                         @ \o [i \in 1..Len(types) |-> "extractor.extract"]]
          /\ extractions' = [extractions EXCEPT ![p] = pending]
          /\ pc' = [pc EXCEPT ![p] = IF GatherJoined(pending) THEN "compose" ELSE "gather"]
    /\ answer' = [answer EXCEPT ![p] = Unset]
    /\ UNCHANGED <<others, verifier, cache, query, cached, stored, intent, retrieval,
                   composed, verification, components, uuids, path, ret>>

\* one of the running extractions completes, in any order; an exception
\* leaves gather (and the try block) at once, the join returns the results
\* in task order
ExtractDone(p) ==
    /\ pc[p] = "gather"
    /\ \E i \in 1..Len(extractions[p]) :
          /\ extractions[p][i] = Unset
          /\ \E llm \in ExtractorLLM :
                LET result == extract(intent[p].expected_components[i],
                                      context_texts(retrieval[p]), llm)
                    results == [extractions[p] EXCEPT ![i] = result]
                IN IF result.kind = "raise"
                   THEN ReturnError(p)
                   ELSE /\ extractions' = [extractions EXCEPT ![p] = results]
                        /\ pc' = [pc EXCEPT ![p] =
                              IF GatherJoined(results) THEN "compose" ELSE "gather"]
                        /\ UNCHANGED <<intent, retrieval, composed, verification,
                                       components, uuids, path, ret>>
    /\ UNCHANGED <<others, verifier, cache, query, cached, stored, calls, answer>>

\* what execute receives from compose; the prompt and the text of the
\* notice's message are locals of compose
ComposeLocals == {"prompt", "warning_msg"}

Returned(c) == [f \in DOMAIN c \ ComposeLocals |-> c[f]]

\* layout, components, token_usage = await self.composer.compose(...);
\* the locals of compose are remembered for one step
Compose(p) ==
    /\ pc[p] = "compose"
    /\ Called(p, "composer.compose")
    /\ \E llm \in ComposerLLM : \E c \in {compose(extractions[p], llm, p, uuids[p])} :
             IF c.kind = "raise"
             THEN ReturnError(p) /\ answer' = [answer EXCEPT ![p] = Unset]
             ELSE /\ composed' = [composed EXCEPT ![p] = Returned(c)]
                  /\ answer' = [answer EXCEPT ![p] =
                        [f \in DOMAIN c \cap ComposeLocals |-> c[f]]]

                  /\ components' = [components EXCEPT ![p] = c.components]
                  /\ uuids' = [uuids EXCEPT ![p] = @ + Len(c.components)]
                  /\ pc' = [pc EXCEPT ![p] =
                        IF verifier /\ context_texts(retrieval[p]) # <<>>
                        THEN "verify" ELSE "finish"]
                  /\ UNCHANGED <<intent, retrieval, extractions, verification, path, ret>>
    /\ UNCHANGED <<others, verifier, cache, query, cached, stored>>

\* verification = await self.verifier.verify(layout, components, context_texts);
\* extractions is not read after compose and is dropped here
Verify(p) ==
    /\ pc[p] = "verify"
    /\ Called(p, "verifier.verify")
    /\ \E llm \in VerifierLLM :
          LET v == verify(context_texts(retrieval[p]), llm)
          IN IF v.kind = "raise"
             THEN ReturnError(p)
             ELSE LET after == apply_verification(components[p], v, p, uuids[p])
                  IN /\ verification' = [verification EXCEPT ![p] = v]
                     /\ components' = [components EXCEPT ![p] = after]
                     /\ uuids' = [uuids EXCEPT ![p] = @ + Len(after) - Len(components[p])]
                     /\ pc' = [pc EXCEPT ![p] = "finish"]
                     /\ extractions' = [extractions EXCEPT ![p] = <<>>]
                     /\ UNCHANGED <<intent, retrieval, composed, path, ret>>
    /\ answer' = [answer EXCEPT ![p] = Unset]
    /\ UNCHANGED <<others, verifier, cache, query, cached, stored>>

\* variant: one source per chunk, without deduplication
build_result_source_per_chunk(q, it, r, c, comps, float_error) ==
    RAGResult(c.layout, comps,
              QueryMetadata(DistinctDocuments(r.chunks), Len(r.chunks), "composer_model"),
              [i \in 1..Len(r.chunks) |-> [document_id |-> r.chunks[i].document_id]],
              FALSE, RunCost(q, it, c.usage, float_error))

\* the result execute builds after verification (cached=False), with the
\* cost assigned to result.cost
build_result(q, it, r, c, comps, float_error) ==
    RAGResult(c.layout, comps,
              QueryMetadata(DistinctDocuments(r.chunks), Len(r.chunks), "composer_model"),
              aggregate_sources(r.chunks), FALSE, RunCost(q, it, c.usage, float_error))

\* sources, result, cost, await self.cache.set(...), return; the locals
\* intent, extractions and verification end with the call
Finish(p) ==
    /\ pc[p] = "finish"
    /\ \/ \E out \in {"sources_error", "set_error"} :
             /\ ReturnError(p)
             /\ IF out = "set_error" THEN Called(p, "cache.set") ELSE UNCHANGED calls
             /\ UNCHANGED <<cache, stored>>
       \/ \E float_error \in RunFloatErrors(query[p], intent[p], composed[p].usage) :
             LET result == build_result(query[p], intent[p], retrieval[p], composed[p],
                                        components[p], float_error)
             IN /\ Called(p, "cache.set")
                /\ cache' = redis_set(cache, query_key(query[p]), result, CacheTtlSeconds)
                /\ stored' = [stored EXCEPT ![p] = pickle_dumps(result)]
                /\ ret' = [ret EXCEPT ![p] = ExecuteQueryResult(result, result.cost)]
                /\ path' = [path EXCEPT ![p] = "ok"]
                /\ pc' = [pc EXCEPT ![p] = "done"]
                /\ intent' = [intent EXCEPT ![p] = Unset]
                /\ extractions' = [extractions EXCEPT ![p] = <<>>]
                /\ verification' = [verification EXCEPT ![p] = Unset]
                /\ UNCHANGED <<retrieval, composed, components, uuids>>
    /\ answer' = [answer EXCEPT ![p] = Unset]
    /\ UNCHANGED <<others, verifier, query, cached>>

\* the route handler turns what execute returned into the HTTP response
\* (or a 500); the request and its locals are gone
Respond(p) ==
    /\ pc[p] = "done"
    /\ pc' = [pc EXCEPT ![p] = "closed"]
    /\ query' = [query EXCEPT ![p] = Unset]
    /\ cached' = [cached EXCEPT ![p] = Unset]
    /\ intent' = [intent EXCEPT ![p] = Unset]
    /\ retrieval' = [retrieval EXCEPT ![p] = Unset]
    /\ extractions' = [extractions EXCEPT ![p] = <<>>]
    /\ composed' = [composed EXCEPT ![p] = Unset]
    /\ verification' = [verification EXCEPT ![p] = Unset]
    /\ components' = [components EXCEPT ![p] = <<>>]
    /\ uuids' = [uuids EXCEPT ![p] = 0]
    /\ calls' = [calls EXCEPT ![p] = <<>>]
    /\ stored' = [stored EXCEPT ![p] = Nil]
    /\ path' = [path EXCEPT ![p] = "none"]
    /\ ret' = [ret EXCEPT ![p] = Unset]
    /\ answer' = [answer EXCEPT ![p] = Unset]
    /\ UNCHANGED <<others, verifier, cache>>

\* Redis drops a key whose TTL (SETEX key ttl_seconds) has run out
Expire(k) ==
    /\ cache[k].ttl > 0
    /\ cache' = [cache EXCEPT ![k] = Absent]
    /\ UNCHANGED <<others, verifier, pc, query, cached, intent, retrieval, extractions, composed,
                   verification, components, uuids, calls, stored, path, ret, answer>>

\* requests are served one after the other, in their order of arrival
Quiet(p) ==
    \E i \in 1..Len(RequestOrder) :
        /\ RequestOrder[i] = p
        /\ \A j \in 1..(i - 1) : pc[RequestOrder[j]] = "closed"

SeqStart(p) == Quiet(p) /\ Start(p)

Next ==
    \/ \E p \in Requests :
          \/ SeqStart(p)
          \/ CacheGet(p)
          \/ Plan(p)
          \/ Retrieve(p)
          \/ Extract(p)
          \/ ExtractDone(p)
          \/ Compose(p)
          \/ Verify(p)
          \/ Finish(p)
          \/ Respond(p)
    \/ \E k \in CacheKeys : Expire(k)

Spec == Init /\ [][Next]_vars

(***************************************************************************)
(* Concurrent requests: the event loop runs the executions interleaved     *)
(***************************************************************************)
\* The runs followed when the executions are interleaved: no collaborator
\* fails, the planner falls back to the default intent, the searches find
\* nothing or MaxChunks chunks, and the verifier answers with JSON.
Plain ==
    \A p \in Requests :
        /\ path[p] \notin {"raised", "error"}
        /\ intent[p] # Unset => intent[p] = default_factual(query[p].text)
        /\ retrieval[p] # Unset => Len(retrieval[p].chunks) \in {0, MaxChunks}
        /\ composed[p] # Unset => composed[p].kind \in {"composed", "raw"}
        /\ verification[p] # Unset => verification[p].warnings = <<>>

\* every request may arrive, and every execution may resume after its
\* await, at any time
ConcurrentNext ==
    /\ \/ \E p \in Requests :
             \/ Start(p)
             \/ CacheGet(p)
             \/ Plan(p)
             \/ Retrieve(p)
             \/ Extract(p)
             \/ ExtractDone(p)
             \/ Compose(p)
             \/ Verify(p)
             \/ Finish(p)
             \/ Respond(p)
       \/ \E k \in CacheKeys : Expire(k)
    /\ Plain'

ConcurrentSpec == Init /\ [][ConcurrentNext]_vars

(***************************************************************************)
(* CostBreakdown.calculate on its own                                      *)
(***************************************************************************)
pipeline_vars == <<verifier, cache, pc, query, cached, intent, retrieval, extractions,
                   composed, verification, components, uuids, calls, stored, path, ret,
                   answer>>

\* the token and query counts calculate is called with
CountSets ==
    [embedding_tokens : {0, 2, 56000},
     llm_input_tokens : { 500 * i : i \in 0..MaxTokenSteps },
     llm_output_tokens : { 500 * i : i \in 0..MaxTokenSteps },
     vector_queries : {0, 1, 44},
     float_error : FloatErrors]

CostInit ==
    /\ InitPipeline
    /\ counts \in CountSets
    /\ bills = Unset
    /\ job = Unset
    /\ job_store = Unset
    /\ ingest = IngestIdle
    /\ search = Unset
    /\ found = Unset
    /\ comp_data = Unset
    /\ component = Unset
    /\ compose_args = Unset
    /\ compose_result = Unset

\* calculate(..., margin=0.4) and calculate(..., margin=0) of the same counts
Calculate ==
    /\ bills = Unset
    /\ bills' =
          [kind |-> "bills",
           with_margin |->
              calculate(counts.embedding_tokens, counts.llm_input_tokens,
                        counts.llm_output_tokens, counts.vector_queries,
                        CostMarginTenths, counts.float_error),
           no_margin |->
              calculate(counts.embedding_tokens, counts.llm_input_tokens,
                        counts.llm_output_tokens, counts.vector_queries,
                        0, counts.float_error)]
    /\ UNCHANGED <<pipeline_vars, counts, ingest_vars, retriever_vars, component_vars, composer_vars>>

CostNext == Calculate

CostSpec == CostInit /\ [][CostNext]_vars

(***************************************************************************)
(* Ingestion: Job and IngestDocument.execute                               *)
(***************************************************************************)
\* Python's None, and a str value (str(e) may be any string, "" included)
NoneValue == [kind |-> "none"]
Str(s) == [kind |-> "str", value |-> s]

\* what utc_now() returns; the instant itself is left out
utc_now == [kind |-> "datetime"]

\* str(e) of the exceptions the collaborators raise
ErrorTexts == {"", "connection refused"}

\* Job.create(): the dataclass defaults (id and created_at left out)
JobCreate ==
    [status |-> "PENDING",
     progress_percent |-> 0,
     documents_processed |-> 0,
     chunks_created |-> 0,
     error_message |-> NoneValue,
     completed_at |-> NoneValue]

start(self) == [self EXCEPT !.status = "RUNNING"]

complete(self, documents, chunks) ==
    [self EXCEPT !.status = "SUCCESS",
                 !.documents_processed = documents,
                 !.chunks_created = chunks,
                 !.progress_percent = 100,
                 !.completed_at = utc_now]

fail(self, error) ==
    [self EXCEPT !.status = "FAILED",
                 !.error_message = Str(error),
                 !.completed_at = utc_now]

\* how an awaited call of a port ends: it returns, it raises an Exception
\* with the given text, or the task is cancelled while it waits
\* (asyncio.CancelledError is a BaseException, which "except Exception"
\* lets through)
AwaitOutcomes ==
    {[kind |-> "ok"], [kind |-> "cancelled"]}
        \cup { [kind |-> "error", text |-> t] : t \in ErrorTexts }

\* execute returned / execute raised
IngestReturned(n) == [kind |-> "return", chunks |-> n]
IngestRaised(text) == [kind |-> "raise", error |-> Str(text)]
IngestCancelled == [kind |-> "raise", error |-> Str("CancelledError")]

\* leaving the try block: the except handler runs job.fail(str(e)) and
\* awaits job_store.save(job); a cancellation is not caught
LeaveTryKeepsStatus(out) ==
    IF out.kind = "error"
    THEN /\ job' = job
         /\ ingest' = [ingest EXCEPT !.pc = "save_failed", !.error = out.text,
                                     !.outcome = out.kind]
    ELSE /\ job' = job
         /\ ingest' = [ingest EXCEPT !.pc = "done", !.ret = IngestCancelled,
                                     !.outcome = out.kind]

LeaveTry(out) ==
    IF out.kind = "error"
    THEN /\ job' = fail(job, out.text)
         /\ ingest' = [ingest EXCEPT !.pc = "save_failed", !.error = out.text,
                                     !.outcome = out.kind]
    ELSE /\ job' = job
         /\ ingest' = [ingest EXCEPT !.pc = "done", !.ret = IngestCancelled,
                                     !.outcome = out.kind]

\* after _chunk_text: embed when there are chunks, else job.complete and save
AfterChunking ==
    IF ingest.chunks > 0
    THEN /\ job' = job
         /\ ingest' = [ingest EXCEPT !.pc = "embed", !.outcome = "ok"]
    ELSE /\ job' = complete(job, 1, 0)
         /\ ingest' = [ingest EXCEPT !.pc = "save_success", !.outcome = "ok"]

\* execute is called: Job.create(), job.start(), await job_store.save(job)
IngestBegin ==
    /\ ingest.pc = "idle"
    /\ \E content \in {"bytes", "str"}, n \in 0..MaxChunks :
          ingest' = [pc |-> "save_running", content |-> content, chunks |-> n,
                     error |-> "", outcome |-> "none", ret |-> Unset]
    /\ job' = start(JobCreate)
    /\ UNCHANGED <<job_store, pipeline_vars, cost_vars, retriever_vars, component_vars, composer_vars>>

\* the first save ends; it is outside the try block, so its exception
\* leaves execute at once.  A str content goes straight to chunking.
SaveRunning ==
    /\ ingest.pc = "save_running"
    /\ \E out \in AwaitOutcomes :
          IF out.kind = "ok"
          THEN /\ job_store' = job
               /\ IF ingest.content = "bytes"
                  THEN /\ job' = job
                       /\ ingest' = [ingest EXCEPT !.pc = "put", !.outcome = "ok"]
                  ELSE AfterChunking
          ELSE /\ UNCHANGED <<job_store, job>>
               /\ ingest' = [ingest EXCEPT
                                !.pc = "done",
                                !.outcome = out.kind,
                                !.ret = IF out.kind = "error"
                                        THEN IngestRaised(out.text)
                                        ELSE IngestCancelled]
    /\ UNCHANGED <<pipeline_vars, cost_vars, retriever_vars, component_vars, composer_vars>>

\* blob_store.put ends, then text_extractor.extract runs (not awaited: it
\* returns or raises), then the text is chunked
BlobPut ==
    /\ ingest.pc = "put"
    /\ \/ \E out \in AwaitOutcomes :
             IF out.kind = "ok" THEN AfterChunking ELSE LeaveTry(out)
       \/ \E t \in ErrorTexts : LeaveTry([kind |-> "error", text |-> t])
    /\ UNCHANGED <<job_store, pipeline_vars, cost_vars, retriever_vars, component_vars, composer_vars>>

\* embedder.embed ends
Embed ==
    /\ ingest.pc = "embed"
    /\ \E out \in AwaitOutcomes :
          IF out.kind = "ok"
          THEN /\ job' = job
               /\ ingest' = [ingest EXCEPT !.pc = "upsert", !.outcome = "ok"]
          ELSE LeaveTry(out)
    /\ UNCHANGED <<job_store, pipeline_vars, cost_vars, retriever_vars, component_vars, composer_vars>>

\* vector_store.upsert ends; then job.complete(documents=1, chunks=len(chunks))
Upsert ==
    /\ ingest.pc = "upsert"
    /\ \E out \in AwaitOutcomes :
          IF out.kind = "ok"
          THEN /\ job' = complete(job, 1, ingest.chunks)
               /\ ingest' = [ingest EXCEPT !.pc = "save_success", !.outcome = "ok"]
          ELSE LeaveTry(out)
    /\ UNCHANGED <<job_store, pipeline_vars, cost_vars, retriever_vars, component_vars, composer_vars>>

\* the save of the completed job ends; it is inside the try block
SaveSuccess ==
    /\ ingest.pc = "save_success"
    /\ \E out \in AwaitOutcomes :
          IF out.kind = "ok"
          THEN /\ job_store' = job
               /\ job' = job
               /\ ingest' = [ingest EXCEPT !.pc = "done", !.outcome = "ok",
                                           !.ret = IngestReturned(ingest.chunks)]
          ELSE /\ job_store' = job_store
               /\ LeaveTry(out)
    /\ UNCHANGED <<pipeline_vars, cost_vars, retriever_vars, component_vars, composer_vars>>

\* the save in the except handler ends, then "raise" re-raises e; an
\* exception of the save itself replaces e
SaveFailed ==
    /\ ingest.pc = "save_failed"
    /\ \E out \in AwaitOutcomes :
          /\ job_store' = IF out.kind = "ok" THEN job ELSE job_store
          /\ ingest' = [ingest EXCEPT
                           !.pc = "done",
                           !.outcome = out.kind,
                           !.ret = CASE out.kind = "ok" -> IngestRaised(ingest.error)
                                     [] out.kind = "error" -> IngestRaised(out.text)
                                     [] OTHER -> IngestCancelled]
    /\ job' = job
    /\ UNCHANGED <<pipeline_vars, cost_vars, retriever_vars, component_vars, composer_vars>>

IngestInit ==
    /\ InitPipeline
    /\ counts = Unset
    /\ bills = Unset
    /\ job = Unset
    /\ job_store = Unset
    /\ ingest = IngestIdle
    /\ search = Unset
    /\ found = Unset
    /\ comp_data = Unset
    /\ component = Unset
    /\ compose_args = Unset
    /\ compose_result = Unset

IngestNext ==
    \/ IngestBegin
    \/ SaveRunning
    \/ BlobPut
    \/ Embed
    \/ Upsert
    \/ SaveSuccess
    \/ SaveFailed

IngestSpec == IngestInit /\ [][IngestNext]_vars

(***************************************************************************)
(* IntentDrivenRetriever._retrieve_multi_entity on its own                 *)
(***************************************************************************)
\* default_top_k of the retrievers built: a small one and the default
TopKs == {1, DefaultTopK}

\* intent.rewritten_queries: none, one, two, and the same query twice
RewrittenLists ==
    { <<>>,
      << <<"labor", "policy">> >>,
      << <<"labor", "policy">>, <<"liberal", "policy">> >>,
      << <<"labor", "policy">>, <<"labor", "policy">> >> }

\* what a task of _search_single ends with: the embedder raises, the store
\* raises, or the store answers with a list of distinct chunks
TaskResults ==
    {[kind |-> "embed_error"], [kind |-> "search_error"]}
        \cup { [kind |-> "chunks", chunks |-> [i \in 1..Len(ids) |-> Chunk(ids[i])]] :
                  ids \in { f \in UNION { [1..n -> 1..MaxChunks] : n \in 0..MaxChunks } :
                               \A a, b \in DOMAIN f : f[a] = f[b] => a = b } }

RetrieverInit ==
    /\ InitPipeline
    /\ counts = Unset
    /\ bills = Unset
    /\ job = Unset
    /\ job_store = Unset
    /\ ingest = IngestIdle
    /\ search \in [pc : {"start"},
                   default_top_k : TopKs,
                   query : {<<"compare", "policies">>},
                   rewritten_queries : RewrittenLists,
                   embedded : {<<>>},
                   completed : {<<>>}]
    /\ found = Unset
    /\ comp_data = Unset
    /\ component = Unset
    /\ compose_args = Unset
    /\ compose_result = Unset

\* search_tasks is built and gather starts the tasks: each _search_single
\* runs up to its first await, embedder.embed_single(rq)
StartSearches ==
    /\ search.pc = "start"
    /\ search' = [search EXCEPT
                     !.pc = "gather",
                     !.embedded =
                        SearchQueries(search.query,
                                      [rewritten_queries |-> search.rewritten_queries])]
    /\ UNCHANGED <<found, pipeline_vars, cost_vars, ingest_vars, component_vars, composer_vars>>

\* one of the running _search_single tasks ends, whatever the others did
SearchSingleDone ==
    /\ search.pc = "gather"
    /\ \E i \in 1..Len(search.embedded), result \in TaskResults :
          /\ \A j \in 1..Len(search.completed) : search.completed[j].task # i
          /\ search' = [search EXCEPT
                           !.completed = Append(@, [task |-> i, result |-> result])]
    /\ UNCHANGED <<found, pipeline_vars, cost_vars, ingest_vars, component_vars, composer_vars>>

\* every task has ended: gather returns and the results are merged
MultiEntityJoin ==
    /\ search.pc = "gather"
    /\ Len(search.completed) = Len(search.embedded)
    /\ found' = retrieve_multi_entity(
                    [default_top_k |-> search.default_top_k], search.query,
                    [rewritten_queries |-> search.rewritten_queries], search.completed)
    /\ search' = [search EXCEPT !.pc = "done"]
    /\ UNCHANGED <<pipeline_vars, cost_vars, ingest_vars, component_vars, composer_vars>>

RetrieverNext ==
    \/ StartSearches
    \/ SearchSingleDone
    \/ MultiEntityJoin

RetrieverSpec == RetrieverInit /\ [][RetrieverNext]_vars

(***************************************************************************)
(* parse_component on its own: one raw component is parsed                 *)
(***************************************************************************)
\* the sequences over S of length at most n
SeqsUpTo(S, n) == UNION { [1..k -> S] : k \in 0..n }

\* n times the value v
Rep(v, n) == [i \in 1..n |-> v]

\* the value lists of the chart series tried: of 0, 1, 2, 3, PIE_MAX_SLICES
\* and PIE_MAX_SLICES + 1 points, with negative values, numbers as text,
\* text that is no number, and null
SeriesValues ==
    { Rep(JNum(2), k) : k \in {0, 1, 2, LINE_MIN_DATA_POINTS, PIE_MAX_SLICES, PIE_MAX_SLICES + 1} }
        \cup { <<JNum(2), JNum(0 - 1)>>, <<JNum(0 - 1)>>, <<JStr("7"), JStr("-2"), JNum(0)>>,
               <<JNum(2), JStr("n/a")>>, <<JNum(2), JNull>>, <<JNum(2), JAbsent>> }

ChartTypes == {JAbsent, JStr("bar"), JStr("pie"), JStr("doughnut"), JStr("line")}

RawChart(type, chart_type, series) ==
    [type |-> JStr(type), chart_type |-> chart_type,
     series |-> [i \in 1..Len(series) |->
                    [data |-> [k \in 1..Len(series[i]) |-> [value |-> series[i][k]]]]]]

RawCharts(max_series) ==
    { RawChart("chart", ct, ss) : ct \in ChartTypes, ss \in SeqsUpTo(SeriesValues, max_series) }
        \cup { RawChart("Pie-Chart", JStr("pie"), <<Rep(JNum(2), k)>>) :
                 k \in {PIE_MAX_SLICES, PIE_MAX_SLICES + 1} }

RawComparison(type, names, attributes) ==
    [type |-> JStr(type), items |-> [i \in 1..Len(names) |-> [name |-> names[i]]],
     attributes |-> attributes]

RawAttributes ==
    { [name |-> n, values |-> Rep(JStr("v"), k)] :
        n \in {JStr("cost"), JStr("")}, k \in {0, 1, MaxItems} }

RawComparisons(max_items, max_attributes) ==
    { RawComparison("comparison", names, attrs) :
        names \in SeqsUpTo({JStr("A"), JStr(""), JAbsent}, max_items),
        attrs \in SeqsUpTo(RawAttributes, max_attributes) }
        \cup { RawComparison("Compare ", Rep(JStr("A"), 2),
                             <<[name |-> JStr("cost"), values |-> Rep(JStr("v"), 2)]>>) }

RawEvents ==
    { [date |-> JAbsent, label |-> JStr("royal assent"), significance |-> s] :
        s \in {JAbsent, JNum(2), JStr("4"), JStr("high"), JNull} }
        \cup { [date |-> JAbsent, label |-> JAbsent, significance |-> JAbsent] }

RawTimelines(max_events) ==
    { [type |-> JStr("timeline"), events |-> es] : es \in SeqsUpTo(RawEvents, max_events) }

RawParties ==
    { [party |-> n, votes_for |-> f, votes_against |-> JAbsent, abstentions |-> JAbsent] :
        n \in {JStr("P"), JAbsent}, f \in {JNum(1), JNum(0), JStr("n/a")} }
        \cup { [party |-> JStr("P"), votes_for |-> JNum(1), votes_against |-> JAbsent,
                abstentions |-> JStr("n/a")] }

RawVotings(max_parties) ==
    { [type |-> JStr("voting_breakdown"), total_for |-> f, total_against |-> g,
       total_abstentions |-> a, party_breakdown |-> ps] :
        f \in {JAbsent, JNum(0), JNum(3), JStr("n/a")}, g \in {JAbsent, JNum(2)},
        a \in {JAbsent, JNum(1), JStr("n/a")}, ps \in SeqsUpTo(RawParties, max_parties) }

RawTextBlocks ==
    { [type |-> JStr("text_block"), content |-> c] : c \in {JStr("summary"), JStr(""), JAbsent} }

\* a type that is no component type, no type, and types that are not strings
RawOthers == { [type |-> t] : t \in {JStr("hologram"), JStr(""), JAbsent, JNum(1), JNull} }

RawComponents(type) ==
    CASE type = "chart" -> RawCharts(MaxSeries)
      [] type = "comparison" -> RawComparisons(MaxItems, MaxAttributes)
      [] type = "timeline" -> RawTimelines(MaxEvents)
      [] type = "voting_breakdown" -> RawVotings(MaxParties)
      [] type = "text_block" -> RawTextBlocks
      [] OTHER -> RawOthers

ComponentInit ==
    /\ \E type \in {"chart", "comparison", "timeline", "voting_breakdown", "text_block", "other"} :
          comp_data \in RawComponents(type)
    /\ component = Unset
    /\ compose_args = Unset
    /\ compose_result = Unset
    /\ InitPipeline
    /\ counts = Unset
    /\ bills = Unset
    /\ job = Unset
    /\ job_store = Unset
    /\ ingest = IngestIdle
    /\ search = Unset
    /\ found = Unset

\* component = parse_component(comp_data)
ParseComponent ==
    /\ component = Unset
    /\ component' = parse_component(comp_data, Uuid("c", 1))
    /\ UNCHANGED <<comp_data, pipeline_vars, cost_vars, ingest_vars, retriever_vars,
                   composer_vars>>

ComponentNext == ParseComponent

ComponentSpec == ComponentInit /\ [][ComponentNext]_vars

(***************************************************************************)
(* compose on its own                                                      *)
(***************************************************************************)
\* what an extraction handed to compose may be: data of completeness 0.3 or
\* 0.5, or the empty result of a failed extraction
ExtractionsTried ==
    { ExtractionResult(t, TRUE, c, <<>>) : t \in {"text_block", "comparison"}, c \in {3, 5} }
        \cup { ExtractionEmpty(t, "llm_error") : t \in {"text_block", "comparison"} }

ComposerInit ==
    /\ compose_args \in [extractions : SeqsUpTo(ExtractionsTried, MaxExtractions),
                         llm : ComposerResponses(ComposerJsonAlone)]
    /\ compose_result = Unset
    /\ InitPipeline
    /\ counts = Unset
    /\ bills = Unset
    /\ job = Unset
    /\ job_store = Unset
    /\ ingest = IngestIdle
    /\ search = Unset
    /\ found = Unset
    /\ comp_data = Unset
    /\ component = Unset

\* layout, components, token_usage = await composer.compose(query, intent, extractions)
ComposeAlone ==
    /\ compose_result = Unset
    /\ compose_result' = compose(compose_args.extractions, compose_args.llm, "c", 0)
    /\ UNCHANGED <<compose_args, pipeline_vars, cost_vars, ingest_vars, retriever_vars,
                   component_vars>>

ComposerNext == ComposeAlone

ComposerSpec == ComposerInit /\ [][ComposerNext]_vars

(***************************************************************************)
(* Properties                                                              *)
(***************************************************************************)
CacheKey(p) == query_key(query[p])

LastCall(p) == IF calls[p] = <<>> THEN "none" ELSE calls[p][Len(calls[p])]

\* the list without its i-th element (1-based)
RemoveAt(s, i) == SubSeq(s, 1, i - 1) \o SubSeq(s, i + 1, Len(s))

IsWarningNotice(c) == c.type = "notice" /\ c.level = "warning"

\* C1: on a cache hit execute returns exactly the value cache.get returned
\* (the value Redis holds under the key), with a zero CostBreakdown, after no
\* collaborator call other than cache.get and without writing the cache.
C1_CacheHitReturnsCached ==
    \A p \in Requests :
        path[p] = "hit" =>
            /\ ret[p].kind = "return"
            /\ ret[p].result = cached[p]
            /\ redis_get(cache, CacheKey(p)) \in {Nil, pickle_dumps(ret[p].result)}
            /\ ret[p].cost = CostZero
            /\ ret[p].cost.total_cents = 0 /\ ret[p].cost.total_credits = 0
            /\ calls[p] = <<"cache.get">>
            /\ stored[p] = Nil

\* a second request has been answered from the cache
C1_Witness ==
    \E p \in Requests : path[p] = "hit" /\ ret[p].result.cost.total_cents > 0

\* C2: a result returned from a cache hit has cached = true, a result
\* produced by a cache miss has cached = false.
C2_CachedFlag ==
    \A p \in Requests :
        /\ path[p] = "hit" => ret[p].result.cached = TRUE
        /\ path[p] \in {"ok", "insufficient", "error"} => ret[p].result.cached = FALSE

\* C3: execute never raises to its caller: whatever collaborator fails, it
\* ends by returning an ExecuteQueryResult.
C3_NeverRaises ==
    \A p \in Requests : pc[p] = "done" => ret[p].kind = "return"

\* C4: a cache failure is transparent: after a failed cache.get execute goes
\* on as on a miss, and after a failed cache.set it still returns the result
\* it composed, with the computed cost.
C4_CacheFailureTransparent ==
    \A p \in Requests :
        pc[p] = "done" =>
            /\ LastCall(p) = "cache.get" => path[p] = "hit"
            /\ LastCall(p) = "cache.set" =>
                  /\ path[p] = "ok"
                  /\ ret[p].result.components = components[p]
                  /\ ret[p].cost = ret[p].result.cost

\* C5: when the retriever reports is_sufficient = false, execute returns the
\* warning Notice "Limited Information" followed by the TextBlock of
\* suggestions, both in the one section, at zero cost, without calling the
\* extractor, the composer or the verifier and without writing the cache, so
\* that the key is still absent for a later identical query.
C5_InsufficientRetrieval ==
    \A p \in Requests :
        (retrieval[p].kind = "ok" /\ ~retrieval[p].is_sufficient) =>
            /\ path[p] = "insufficient"
            /\ ret[p].kind = "return"
            /\ LET r == ret[p].result
               IN /\ Len(r.components) = 2
                  /\ IsWarningNotice(r.components[1])
                  /\ r.components[1].title = "Limited Information"
                  /\ r.components[2].type = "text_block"
                  /\ r.components[2].body = "suggestions"
                  /\ r.components[1].id # r.components[2].id
                  /\ Len(r.layout.sections) = 1
                  /\ r.layout.sections[1].component_ids = CompIds(r.components)
            /\ ret[p].cost = CostZero
            /\ calls[p] = <<"cache.get", "planner.analyze", "retriever.retrieve">>
            /\ stored[p] = Nil
            /\ cache[CacheKey(p)] = Absent

\* the retriever found too few chunks and execute has returned
C5_Witness ==
    \E p \in Requests :
        /\ pc[p] = "done"
        /\ retrieval[p].kind = "ok"
        /\ ~retrieval[p].is_sufficient
        /\ Len(retrieval[p].chunks) = 1

\* C6 as stated: the insufficient-retrieval response reports chunks_used = 0
\* whatever number of chunks the retriever returned.
C6_ChunksUsedZero ==
    \A p \in Requests :
        path[p] = "insufficient" => ret[p].result.metadata.chunks_used = 0

\* C6 amended: the insufficient-retrieval response reports chunks_used = the
\* number of chunks the retriever returned (0 up to
\* min_chunks_for_sufficiency - 1) and documents_retrieved = 0.
C6_ChunksUsedIsRetrieved ==
    \A p \in Requests :
        path[p] = "insufficient" =>
            /\ ret[p].result.metadata.chunks_used = Len(retrieval[p].chunks)
            /\ ret[p].result.metadata.chunks_used < MinChunksForSufficiency
            /\ ret[p].result.metadata.documents_retrieved = 0

\* the retriever returned some chunks, but too few
C6_Witness ==
    \E p \in Requests :
        /\ path[p] = "insufficient"
        /\ Len(retrieval[p].chunks) = MinChunksForSufficiency - 1
        /\ ret[p].result.metadata.chunks_used > 0

\* C7: when a stage after the cache lookup raises, execute returns the error
\* response - one warning Notice, one section referencing it, zero cost -
\* and nothing has been written under the query's key.
C7_ErrorResponse ==
    \A p \in Requests :
        path[p] = "error" =>
            /\ ret[p].kind = "return"
            /\ LET r == ret[p].result
               IN /\ Len(r.components) = 1
                  /\ IsWarningNotice(r.components[1])
                  /\ Len(r.layout.sections) = 1
                  /\ r.layout.sections[1].component_ids = <<r.components[1].id>>
            /\ ret[p].cost = CostZero
            /\ stored[p] = Nil
            /\ cache[CacheKey(p)] = Absent

\* a stage after composition (the verifier, or cache.set) has raised
C7_Witness ==
    \E p \in Requests :
        path[p] = "error" /\ LastCall(p) \in {"verifier.verify", "cache.set"}

\* C8: when the composer's LLM call raises and compose returns its fallback
\* response, execute returns the fallback and does not write it to the cache.
C8_FallbackNotCached ==
    \A p \in Requests :
        (pc[p] = "done" /\ composed[p].kind = "fallback") =>
            /\ ret[p].kind = "return"
            /\ ret[p].result.layout = composed[p].layout
            /\ stored[p] = Nil
            /\ cache[CacheKey(p)] = Absent

\* C9: verification only annotates: once verify has returned, the components
\* of execute are the composer's components, same ids, types and order,
\* with at most one warning Notice inserted at index min(1, n); these are
\* the components execute returns.
C9_VerificationOnlyAnnotates ==
    \A p \in Requests :
        composed[p].kind # "unset" =>
            LET before == composed[p].components
                after == components[p]
                at == Min(1, Len(before)) + 1
            IN /\ \/ after = before
                  \/ /\ Len(after) = Len(before) + 1
                     /\ IsWarningNotice(after[at])
                     /\ after[at].id \notin { before[i].id : i \in 1..Len(before) }
                     /\ RemoveAt(after, at) = before
               /\ path[p] = "ok" => ret[p].result.components = after

\* the verifier has flagged an error and the notice is in the list
C9_Witness ==
    \E p \in Requests :
        /\ pc[p] = "finish"
        /\ verification[p].kind = "ok"
        /\ ~verification[p].is_valid
        /\ Len(composed[p].components) >= 2
        /\ Len(components[p]) = Len(composed[p].components) + 1

HasErrorClaim(v) ==
    \E i \in 1..Len(v.unsupported_claims) : v.unsupported_claims[i] = "error"

NoticeInserted(p) == components[p] # composed[p].components

IdsOf(cs) == { cs[i].id : i \in 1..Len(cs) }

\* C11: in every result execute returns (composed, composer-insufficient,
\* composer fallback, retrieval-insufficient, error, cache hit) every id of
\* every section's component_ids is the id of a component of the result,
\* and no section has an empty component_ids.
C11_SectionsResolve ==
    \A p \in Requests :
        (pc[p] = "done" /\ ret[p].kind = "return") =>
            LET r == ret[p].result
            IN \A i \in 1..Len(r.layout.sections) :
                  LET ids == r.layout.sections[i].component_ids
                  IN /\ ids # <<>>
                     /\ \A k \in 1..Len(ids) : ids[k] \in IdsOf(r.components)

\* a composed answer whose three raw sections, one of them with invalid
\* components only, gave two sections
C11_Witness ==
    \E p \in Requests :
        /\ path[p] = "ok"
        /\ composed[p].kind = "composed"
        /\ Len(ret[p].result.layout.sections) = 2
        /\ Len(ret[p].result.components) >= 2

\* C12: a completed cache-miss run stores its result under the query's key
\* with the configured TTL; the entry stays as stored until it expires or a
\* run stores again; and an execute whose cache.get finds the entry returns
\* the stored result - same layout, components, metadata and sources - at
\* zero cost, having called nothing but cache.get.
C12_StoredThenServed ==
    [][\A p \in Requests :
          /\ (pc[p] = "finish" /\ path'[p] = "ok") =>
                /\ cache'[CacheKey(p)] =
                      [data |-> pickle_dumps(ret'[p].result), ttl |-> CacheTtlSeconds]
                /\ pickle_loads(cache'[CacheKey(p)].data) = ret'[p].result
          /\ \A k \in CacheKeys :
                cache'[k] # cache[k] =>
                    \/ cache'[k] = Absent
                    \/ \E q \in Requests : pc[q] = "finish" /\ CacheKey(q) = k
          /\ (pc[p] = "cache_get" /\ pc'[p] = "done" /\ ret'[p].kind = "return") =>
                LET held == pickle_loads(cache[CacheKey(p)].data)
                IN /\ cache[CacheKey(p)] # Absent
                   /\ ret'[p].result.layout = held.layout
                   /\ ret'[p].result.components = held.components
                   /\ ret'[p].result.metadata = held.metadata
                   /\ ret'[p].result.sources = held.sources
                   /\ ret'[p].cost = CostZero
                   /\ calls'[p] = <<"cache.get">>
          /\ (pc[p] = "cache_get" /\ pc'[p] = "plan") => cache[CacheKey(p)] = Absent
    ]_vars

\* a later request for the same text and filters was served the entry an
\* earlier run stored, before its expiry
C12_Witness ==
    \E p \in Requests :
        /\ p # RequestOrder[1]
        /\ path[p] = "hit"
        /\ cache[CacheKey(p)].ttl = CacheTtlSeconds
        /\ ret[p].result.sources # <<>>
        /\ ret[p].result.metadata.chunks_used >= MinChunksForSufficiency

\* index of the first chunk of the list that belongs to document d
FirstChunkOf(chunks, d) ==
    CHOOSE i \in 1..Len(chunks) :
        /\ chunks[i].document_id = d
        /\ \A j \in 1..(i - 1) : chunks[j].document_id # d

\* C13: in the result of a completed cache-miss run, sources holds one
\* entry per distinct document_id of the retrieved chunks and no other
\* document, in the order in which the documents first occur among the
\* chunks, and documents_retrieved = len(sources) <= chunks_used = number
\* of retrieved chunks.
C13_SourcesFromChunks ==
    \A p \in Requests :
        path[p] = "ok" =>
            LET r == ret[p].result
                chunks == retrieval[p].chunks
                docs(seq) == { seq[i].document_id : i \in 1..Len(seq) }
            IN /\ docs(r.sources) = docs(chunks)
               /\ \A i, j \in 1..Len(r.sources) :
                     i < j =>
                        /\ r.sources[i].document_id # r.sources[j].document_id
                        /\ FirstChunkOf(chunks, r.sources[i].document_id)
                              < FirstChunkOf(chunks, r.sources[j].document_id)
               /\ r.metadata.documents_retrieved = Len(r.sources)
               /\ r.metadata.chunks_used = Len(chunks)
               /\ Len(r.sources) <= r.metadata.chunks_used

\* a run whose chunks came back in date order: two chunks of one document
\* after a chunk of another, so two sources for three chunks
C13_Witness ==
    \E p \in Requests :
        /\ path[p] = "ok"
        /\ Len(ret[p].result.sources) = 2
        /\ Len(retrieval[p].chunks) = 3
        /\ ret[p].result.sources[1].document_id > ret[p].result.sources[2].document_id

PlannerFailed(a) == a \in {[error |-> "llm_error"], [error |-> "parse_error"]}

\* C14: analyze is total.  When the planner's LLM call or the parsing of
\* its output fails, execute goes on to retrieval with the default intent
\* (factual, single_focus, [text_block], [query], confidence 0.5) and the
\* retriever runs the single_focus strategy; when the call succeeds, a
\* value outside an enumeration becomes factual / single_focus / standard,
\* a value inside is kept, and an empty rewritten_queries or
\* expected_components becomes [query] or [text_block].
C14_PlannerTotal ==
    [][\A p \in Requests :
          /\ (pc[p] = "plan" /\ pc'[p] # "plan" /\ PlannerFailed(answer'[p])) =>
                /\ pc'[p] = "retrieve"
                /\ intent'[p].query_type = "factual"
                /\ intent'[p].retrieval_strategy = "single_focus"
                /\ intent'[p].expected_components = <<"text_block">>
                /\ intent'[p].rewritten_queries = <<query[p].text>>
                /\ intent'[p].confidence = 5
          /\ (pc[p] = "plan" /\ pc'[p] # "plan" /\ answer'[p] \in PlannerOutputs) =>
                LET data == answer'[p]
                    it == intent'[p]
                    coerced(v, enum, dflt) == IF v \in enum THEN v ELSE dflt
                IN /\ pc'[p] = "retrieve"
                   /\ it.query_type =
                         coerced(data.query_type,
                                 {"factual", "comparative", "timeline", "voting", "analytical"},
                                 "factual")
                   /\ it.retrieval_strategy =
                         coerced(data.retrieval_strategy,
                                 {"single_focus", "multi_entity", "chronological", "broad"},
                                 "single_focus")
                   /\ it.response_depth =
                         coerced(data.response_depth,
                                 {"brief", "standard", "comprehensive"}, "standard")
                   /\ it.rewritten_queries =
                         (IF data.rewritten_queries = <<>> THEN <<query[p].text>>
                          ELSE data.rewritten_queries)
                   /\ it.expected_components =
                         (IF data.expected_components = <<>> THEN <<"text_block">>
                          ELSE data.expected_components)
          /\ (pc[p] = "retrieve" /\ pc'[p] # "retrieve" /\ PlannerFailed(answer[p])) =>
                /\ calls'[p] = <<"cache.get", "planner.analyze", "retriever.retrieve">>
                /\ retrieval'[p].kind = "ok" => retrieval'[p].strategy_used = "single_focus"
    ]_vars

\* the planner's LLM failed and the retriever has then found chunks with
\* the default intent
C14_Witness ==
    \E p \in Requests :
        /\ pc[p] = "extract"
        /\ intent[p].confidence = 5
        /\ intent[p].response_depth = "standard"
        /\ intent[p].rewritten_queries = <<query[p].text>>
        /\ retrieval[p].strategy_used = "single_focus"

\* the exact subtotal of the counts, in 1e-5 cent
Subtotal(c) ==
    c.embedding_tokens * EmbeddingRateE5 + c.llm_input_tokens * LlmInputRateE5
        + c.llm_output_tokens * LlmOutputRateE5 + c.vector_queries * VectorQueryRateE5

\* C15 as stated: whenever the subtotal is positive, the total with margin
\* 0.4 is strictly greater than the total with margin 0.
C15_MarginStrictlyRaisesTotal ==
    (bills # Unset /\ Subtotal(counts) > 0) =>
        bills.with_margin.total_cents > bills.no_margin.total_cents

\* C15 amended: whenever the subtotal is positive, the total with margin
\* 0.4 is at least the total with margin 0, and strictly greater when the
\* margin, 0.4 * subtotal, is one cent or more.
C15_MarginRaisesTotal ==
    (bills # Unset /\ Subtotal(counts) > 0) =>
        /\ bills.with_margin.total_cents >= bills.no_margin.total_cents
        /\ 4 * Subtotal(counts) >= 10 * 100000 =>
              bills.with_margin.total_cents > bills.no_margin.total_cents

\* the case of test_margin_calculation: 1000 input and 500 output tokens
C15_Witness ==
    /\ bills # Unset
    /\ counts.llm_input_tokens = 1000 /\ counts.llm_output_tokens = 500
    /\ counts.embedding_tokens = 0 /\ counts.vector_queries = 0
    /\ bills.with_margin.total_cents > bills.no_margin.total_cents

\* C16: every cache-miss run that completes retrieval, extraction and
\* composition is charged a positive cost: total_credits = total_cents > 0.
C16_CompletedRunCharged ==
    \A p \in Requests :
        path[p] = "ok" =>
            /\ ret[p].cost.total_credits = ret[p].cost.total_cents
            /\ ret[p].cost.total_cents > 0

\* what the Job methods do, whatever their arguments
JobLifecycle ==
    /\ JobCreate.status = "PENDING"
    /\ JobCreate.progress_percent = 0
    /\ start(JobCreate).status = "RUNNING"
    /\ \A d \in 0..(MaxChunks + 2), c \in 0..(MaxChunks + 2) :
          LET done == complete(start(JobCreate), d, c)
          IN /\ done.status = "SUCCESS"
             /\ done.progress_percent = 100
             /\ done.documents_processed = d
             /\ done.chunks_created = c
             /\ done.completed_at # NoneValue
    /\ \A e \in ErrorTexts :
          \A j \in {start(JobCreate), complete(start(JobCreate), 1, 1)} :
             LET failed == fail(j, e)
             IN /\ failed.status = "FAILED"
                /\ failed.error_message = Str(e)
                /\ failed.completed_at # NoneValue

\* execute has ended
IngestEnded == ingest.pc = "done"

\* C17 (as stated): the Job methods move the job as described, the job
\* store never holds a PENDING job, and once execute has ended the job store
\* holds the job as SUCCESS if execute returned and as FAILED if it raised.
C17_JobNeverLeftRunning ==
    /\ JobLifecycle
    /\ job_store # Unset => job_store.status # "PENDING"
    /\ IngestEnded =>
          /\ job_store # Unset
          /\ ingest.ret.kind = "return" => job_store.status = "SUCCESS"
          /\ ingest.ret.kind = "raise" => job_store.status = "FAILED"

\* C17 (amended): the Job methods move the job as described; the first save
\* stores the job as RUNNING and every later step finds it stored so; when
\* execute returns the store holds the job as SUCCESS with 1 document, the
\* chunk count and progress 100; when a step raised an Exception and the save
\* in the handler succeeded, execute raises that exception and the store
\* holds the job as FAILED with its text and completed_at set; when the
\* first save or the handler's save raised, or execute was cancelled,
\* execute raises and the store holds what it held before (nothing, or the
\* RUNNING job).
C17_OutcomeSavedWhenSaveSucceeds ==
    /\ JobLifecycle
    /\ job_store # Unset => job_store.status # "PENDING"
    /\ ingest.pc \in {"put", "embed", "upsert", "save_success", "save_failed"}
          => job_store = start(JobCreate)
    /\ IngestEnded /\ ingest.ret.kind = "return" =>
          job_store = complete(start(JobCreate), 1, ingest.chunks)
    /\ IngestEnded /\ ingest.ret.kind = "raise" =>
          IF ingest.outcome = "ok"
          THEN /\ job_store.status = "FAILED"
               /\ job_store.error_message = ingest.ret.error
               /\ job_store.completed_at # NoneValue
          ELSE job_store \in {Unset, start(JobCreate)}

\* an upload whose embedding failed: execute re-raised and the store holds
\* the FAILED job with the exception's text
C17_Witness ==
    /\ IngestEnded
    /\ ingest.content = "bytes"
    /\ ingest.chunks > 0
    /\ ingest.ret = IngestRaised("connection refused")
    /\ job_store # Unset
    /\ job_store.status = "FAILED"
    /\ job_store.error_message = Str("connection refused")
    /\ job_store.progress_percent = 0

\* the collaborator calls of a complete run with n extractions, with or
\* without verification, in the order the claim gives
FullStageOrder(n, verified) ==
    <<"cache.get", "planner.analyze", "retriever.retrieve">>
        \o [i \in 1..n |-> "extractor.extract"]
        \o <<"composer.compose">>
        \o (IF verified THEN <<"verifier.verify">> ELSE <<>>)
        \o <<"cache.set">>

IsPrefix(s, t) == Len(s) <= Len(t) /\ \A i \in 1..Len(s) : s[i] = t[i]

\* C18: the calls of a request are always a prefix of cache.get,
\* planner.analyze, retriever.retrieve, the extractor.extract calls,
\* composer.compose, verifier.verify (optional), cache.set; the extractions
\* (one per expected component) run only once retrieve has returned its
\* result; compose is awaited only once every extraction has delivered its
\* result; verify is awaited only with a verifier configured and a non-empty
\* context, after compose has returned; cache.set is reached only after
\* compose and, where verification applies, verify have returned, and it is
\* the last call.
C18_StagesInOrder ==
    \A p \in Requests :
        /\ IsPrefix(calls[p],
                    FullStageOrder(
                        Cardinality({ i \in 1..Len(calls[p]) :
                                         calls[p][i] = "extractor.extract" }),
                        \E i \in 1..Len(calls[p]) : calls[p][i] = "verifier.verify"))
        /\ pc[p] = "extract" =>
              /\ LastCall(p) = "retriever.retrieve"
              /\ retrieval[p] # Unset
        /\ pc[p] = "gather" =>
              /\ LastCall(p) = "extractor.extract"
              /\ Cardinality({ i \in 1..Len(calls[p]) : calls[p][i] = "extractor.extract" })
                    = Len(intent[p].expected_components)
              /\ retrieval[p] # Unset
              /\ retrieval[p].is_sufficient
              /\ composed[p] = Unset
        /\ pc[p] = "compose" =>
              /\ Cardinality({ i \in 1..Len(calls[p]) : calls[p][i] = "extractor.extract" })
                    = Len(intent[p].expected_components)
              /\ Len(extractions[p]) = Len(intent[p].expected_components)
              /\ \A i \in 1..Len(extractions[p]) :
                    /\ extractions[p][i] # Unset
                    /\ extractions[p][i].component_type = intent[p].expected_components[i]
              /\ composed[p] = Unset
        /\ pc[p] = "verify" =>
              /\ verifier
              /\ context_texts(retrieval[p]) # <<>>
              /\ composed[p] # Unset
              /\ verification[p] = Unset
              /\ LastCall(p) = "composer.compose"
        /\ pc[p] = "finish" =>
              /\ composed[p] # Unset
              /\ IF verifier /\ context_texts(retrieval[p]) # <<>>
                 THEN /\ verification[p] # Unset
                      /\ LastCall(p) = "verifier.verify"
                 ELSE LastCall(p) = "composer.compose"
        /\ (\E i \in 1..Len(calls[p]) : calls[p][i] = "verifier.verify") => verifier
        /\ (\E i \in 1..Len(calls[p]) : calls[p][i] = "cache.set") => pc[p] = "done"

\* a verified run with two extractions has gone through every stage and has
\* stored its result
C18_Witness ==
    \E p \in Requests :
        /\ path[p] = "ok"
        /\ calls[p] = FullStageOrder(2, TRUE)
        /\ stored[p] # Nil

\* the multi_entity retrieval on its own has returned
SearchEnded == search # Unset /\ search.pc = "done"

\* the queries searched: the rewritten queries, or the query itself
Searched == IF search.rewritten_queries = <<>> THEN <<search.query>>
            ELSE search.rewritten_queries

\* what the search of the i-th query ended with, whenever it completed
ResultOf(i) ==
    (CHOOSE c \in { search.completed[j] : j \in 1..Len(search.completed) } :
        c.task = i).result

\* the chunks found for the i-th query (none if its search raised)
ChunksOf(i) == IF ResultOf(i).kind = "chunks" THEN ResultOf(i).chunks ELSE <<>>

\* the chunks found for queries 1..n, one query after the other
RECURSIVE ChunksUpTo(_)
ChunksUpTo(n) == IF n = 0 THEN <<>> ELSE ChunksUpTo(n - 1) \o ChunksOf(n)

\* a sequence without the elements whose id occurred earlier in it
FirstOccurrences(chunks) ==
    LET first == { j \in 1..Len(chunks) : \A m \in 1..(j - 1) : chunks[m].id # chunks[j].id }
    IN [r \in 1..Cardinality(first) |->
           chunks[CHOOSE j \in first : Cardinality({ m \in first : m <= j }) = r]]

\* C19: a multi_entity retrieval returns the results of the searches put
\* one after the other in the order of the queries (whatever the order the
\* searches completed in), without the chunks whose id occurred before, cut
\* to the first 2 * default_top_k; the embedder has been called once for
\* every rewritten query, in their order, and once for the query itself
\* when there is no rewritten query.
C19_MergedInQueryOrder ==
    /\ (search # Unset /\ search.pc # "start") =>
          /\ search.embedded = Searched
          /\ Len(search.completed) <= Len(search.embedded)
    /\ SearchEnded =>
          LET merged == FirstOccurrences(ChunksUpTo(Len(Searched)))
          IN /\ found.kind = "ok"
             /\ found.chunks = SubSeq(merged, 1, Min(Len(merged), 2 * search.default_top_k))
             /\ \A a, b \in 1..Len(found.chunks) :
                   found.chunks[a].id = found.chunks[b].id => a = b

\* the second of two searches completed first, the two results share chunk
\* 2, and the three distinct chunks were cut to 2 * default_top_k = 2
C19_Witness ==
    /\ SearchEnded
    /\ search.default_top_k = 1
    /\ Len(search.rewritten_queries) = 2
    /\ search.completed[1].task = 2
    /\ ResultOf(1) = [kind |-> "chunks", chunks |-> <<Chunk(1), Chunk(2)>>]
    /\ ResultOf(2) = [kind |-> "chunks", chunks |-> <<Chunk(2), Chunk(3)>>]
    /\ found.chunks = <<Chunk(1), Chunk(2)>>

\* the queries whose search returned chunks / raised
Succeeded == { i \in 1..Len(Searched) : ResultOf(i).kind = "chunks" }
Failed == { i \in 1..Len(Searched) : ResultOf(i).kind # "chunks" }

\* C20: when some but not all searches of a multi_entity retrieval raised
\* (in the embedder or in the store), every search has still run to its
\* end, retrieve returns a result, its chunks are exactly those of the
\* searches that succeeded (merged and deduplicated, within 2 *
\* default_top_k), and coverage has an entry for exactly the rewritten
\* queries of which a search succeeded.
C20_FailedSearchesSkipped ==
    (SearchEnded /\ Succeeded # {} /\ Failed # {}) =>
        /\ \A i \in 1..Len(Searched) :
              \E j \in 1..Len(search.completed) : search.completed[j].task = i
        /\ found.kind = "ok"
        /\ \A c \in { found.chunks[k] : k \in 1..Len(found.chunks) } :
              \E i \in Succeeded : \E k \in 1..Len(ResultOf(i).chunks) :
                 ResultOf(i).chunks[k] = c
        /\ \A i \in Succeeded : \A k \in 1..Len(ResultOf(i).chunks) :
              \/ \E m \in 1..Len(found.chunks) : found.chunks[m].id = ResultOf(i).chunks[k].id
              \/ Len(found.chunks) = 2 * search.default_top_k
        /\ \A a, b \in 1..Len(found.chunks) :
              found.chunks[a].id = found.chunks[b].id => a = b
        /\ { e[1] : e \in found.coverage } = { Searched[i] : i \in Succeeded }
        /\ \A e \in found.coverage :
              \E i \in Succeeded : e = <<Searched[i], Len(ResultOf(i).chunks)>>

\* the first search to complete raised in the embedder, the other one then
\* returned two chunks, which are the result
C20_Witness ==
    /\ SearchEnded
    /\ Len(search.rewritten_queries) = 2
    /\ search.rewritten_queries[1] # search.rewritten_queries[2]
    /\ search.completed[1] = [task |-> 1, result |-> [kind |-> "embed_error"]]
    /\ ResultOf(2) = [kind |-> "chunks", chunks |-> <<Chunk(2), Chunk(1)>>]
    /\ found.chunks = <<Chunk(2), Chunk(1)>>
    /\ found.coverage = { <<search.rewritten_queries[2], 2>> }

\* the retriever of request p has just returned or raised, and every search
\* it issued had failed in the embedder or in the vector store
AllSearchesFailed(p) ==
    /\ "searches" \in DOMAIN answer[p]
    /\ \A j \in DOMAIN answer[p].searches : answer[p].searches[j].kind # "chunks"

\* C21: when every search of a request failed, execute returns the error
\* response, whatever the retrieval strategy, and not the insufficient-data
\* response.
C21_TotalFailureIsError ==
    \A p \in Requests :
        AllSearchesFailed(p) =>
            /\ pc[p] = "done"
            /\ path[p] = "error"
            /\ ret[p].kind = "return"
            /\ ret[p].result.layout.title = "Error Processing Query"

\* the number of extractor.extract calls request p has issued
ExtractCalls(p) ==
    Cardinality({ i \in 1..Len(calls[p]) : calls[p][i] = "extractor.extract" })

\* C22: execute issues one extractor.extract call per entry of
\* intent.expected_components; the composer is given one result per entry,
\* in the order of expected_components; and a failing extraction never ends
\* the run: it becomes an empty result with a warning, so the run goes on to
\* the composer with the results of the others.
C22_ExtractionFailureIsolated ==
    \A p \in Requests :
        /\ pc[p] \in {"gather", "compose"} =>
              ExtractCalls(p) = Len(intent[p].expected_components)
        /\ pc[p] = "compose" =>
              /\ Len(extractions[p]) = Len(intent[p].expected_components)
              /\ \A i \in 1..Len(extractions[p]) :
                    /\ extractions[p][i].component_type = intent[p].expected_components[i]
                    /\ ~extractions[p][i].has_data => extractions[p][i].warnings # <<>>
        /\ (pc[p] = "done" /\ LastCall(p) = "extractor.extract") => path[p] # "error"

\* composer.compose has just returned to request p
JustComposed(p) == pc[p] \in {"verify", "finish"} /\ LastCall(p) = "composer.compose"

\* the extractions whose extracted_data is non-empty and whose completeness
\* is at least 0.5 (in tenths), by position
CompleteOnes(exts) == { i \in 1..Len(exts) : exts[i].has_data /\ exts[i].completeness >= 5 }

\* C23: with no complete extraction compose returns a warning notice and a
\* text block, both in the one section, with zero token usage and without a
\* call of the LLM; otherwise the LLM has been called once, with a prompt
\* holding the complete extractions and no other.
C23_InsufficientWithoutLLM ==
    \A p \in Requests :
        JustComposed(p) =>
            LET c == composed[p]
                done == CompleteOnes(extractions[p])
            IN IF done = {}
               THEN /\ c.llm_calls = 0
                    /\ c.usage.input_tokens = 0
                    /\ c.usage.output_tokens = 0
                    /\ Len(c.components) = 2
                    /\ c.components[1].type = "notice"
                    /\ c.components[1].level = "warning"
                    /\ c.components[2].type = "text_block"
                    /\ Len(c.layout.sections) = 1
                    /\ c.layout.sections[1].component_ids
                          = <<c.components[1].id, c.components[2].id>>
               ELSE /\ c.llm_calls = 1
                    /\ Len(answer[p].prompt) = Cardinality(done)
                    /\ \A k \in 1..Len(answer[p].prompt) :
                          \E i \in done : extractions[p][i].component_type = answer[p].prompt[k]
                    /\ \A i \in done :
                          \E k \in 1..Len(answer[p].prompt) : answer[p].prompt[k] = extractions[p][i].component_type

\* one extraction was complete and the other not: the LLM was called once
\* with the complete one only
C23_Witness ==
    \E p \in Requests :
        /\ JustComposed(p)
        /\ Len(extractions[p]) = 2
        /\ Cardinality(CompleteOnes(extractions[p])) = 1
        /\ composed[p].llm_calls = 1
        /\ Len(answer[p].prompt) = 1

\* the component ids of a layout, section after section
RECURSIVE SectionOrder(_)
SectionOrder(sections) ==
    IF sections = <<>> THEN <<>>
    ELSE Head(sections).component_ids \o SectionOrder(Tail(sections))

IsDataAvailability(c) == c.type = "notice" /\ c.title = "Data Availability"

IsVerificationWarning(c) == c.type = "notice" /\ c.title = "Verification Warning"

\* the components without the two notices added after parsing
Parsed(cs) == SelectSeq(cs, LAMBDA c : ~IsDataAvailability(c) /\ ~IsVerificationWarning(c))

\* compose returned what _parse_response built
ParsedByComposer(p) == composed[p] # Unset /\ composed[p].kind \in {"composed", "raw"}

Unparseable ==
    /\ compose_result # Unset
    /\ compose_result.kind # "raise"
    /\ compose_result.llm_calls = 1
    /\ compose_args.llm.kind \in {"not_json", "json_not_object"}

\* C25: when the response of the composer's LLM cannot be parsed as the
\* expected JSON object, compose returns exactly one component, a text block
\* holding the raw response, referenced by exactly one section, whatever
\* the completeness of the extractions.
C25_UnparseableIsRawText ==
    Unparseable =>
        LET c == compose_result
        IN /\ Len(c.components) = 1
           /\ c.components[1].type = "text_block"
           /\ c.components[1].body = "raw_content"
           /\ Len(c.layout.sections) = 1
           /\ c.layout.sections[1].component_ids = <<c.components[1].id>>

\* what does hold for text that is not JSON: the raw text block is the only
\* component of the only section, and the only other component is the
\* low-completeness notice
C25_RawTextBlockKept ==
    (Unparseable /\ compose_args.llm.kind = "not_json") =>
        LET c == compose_result
        IN /\ Len(Parsed(c.components)) = 1
           /\ Parsed(c.components)[1].body = "raw_content"
           /\ c.layout.sections = <<Section(<<Parsed(c.components)[1].id>>)>>

\* parse_component has been applied to the raw component
WasParsed == component # Unset

\* the raw component is a chart: its type, normalized, is chart or an alias
IsRaw(type) ==
    /\ comp_data.type.t = "str"
    /\ LET normalized == NormalizedType[comp_data.type.s]
       IN normalized = type \/ (normalized \in DOMAIN TYPE_ALIASES /\ TYPE_ALIASES[normalized] = type)

\* parse_component returned a component
Admitted == WasParsed /\ component.kind = "component"

\* parse_component returned None after a validation with this violation and
\* suggestion
Rejected(violation, suggestion) ==
    /\ WasParsed
    /\ component.kind = "none"
    /\ component.validation.violation = violation
    /\ component.validation.suggestion = suggestion

\* the values of the data points of series i of the raw chart
PointValues(i) ==
    [k \in 1..Len(comp_data.series[i].data) |-> comp_data.series[i].data[k].value]

\* the number a JSON value stands for, if it is a number or the text of one
IsNumber(v) == v.t = "num" \/ (v.t = "str" /\ v.s \in {"7", "-2", "4"})

IsNegative(v) == (v.t = "num" /\ v.n < 0) \/ (v.t = "str" /\ v.s = "-2")

ChartTypeIs(types) == comp_data.chart_type.t = "str" /\ comp_data.chart_type.s \in types

EnoughPoints ==
    Cardinality({ <<i, k>> \in (1..Len(comp_data.series)) \X (1..(PIE_MAX_SLICES + 1)) :
                    k <= Len(PointValues(i)) }) >= 2

AllValuesNumbers ==
    \A i \in 1..Len(comp_data.series) : \A k \in 1..Len(PointValues(i)) :
        IsNumber(PointValues(i)[k])

\* the slices of a pie are the data points of its first series
PieFits(series_checked) ==
    ChartTypeIs({"pie", "doughnut"}) =>
        /\ Len(PointValues(1)) <= 7
        /\ \A i \in series_checked : \A k \in 1..Len(PointValues(i)) :
              ~IsNegative(PointValues(i)[k])

LineFits ==
    ChartTypeIs({"line"}) => \A i \in 1..Len(comp_data.series) : Len(PointValues(i)) >= 3

ChartRule(series_checked) ==
    (WasParsed /\ IsRaw("chart")) =>
        /\ Admitted <=> (EnoughPoints /\ AllValuesNumbers /\ PieFits(series_checked) /\ LineFits)
        /\ ~EnoughPoints => Rejected("insufficient_data", "text_block")
        /\ (EnoughPoints /\ AllValuesNumbers /\ ~PieFits(series_checked))
              => Rejected("poor_fit", "bar")
        /\ (EnoughPoints /\ AllValuesNumbers /\ ~LineFits) => Rejected("poor_fit", "bar")

\* C26: parse_component admits a chart exactly when it has at least 2 data
\* points over all its series, every value is a number or the text of one,
\* a pie or doughnut has at most 7 slices and no negative value in any data
\* point of the chart, and every series of a line has at least 3 points; a
\* pie or line that does not fit is rejected as poor_fit with the suggestion
\* bar, a chart of fewer than 2 points as insufficient_data.
C26_ChartAdmittedIff == ChartRule(1..Len(comp_data.series))

\* what holds: the same with the negative values looked for in the first
\* series only
C26_FirstSeriesChecked == ChartRule({1})

\* the raw items with a non-empty name, and the raw attributes with a
\* non-empty name and at least one value
NamedItems == { i \in 1..Len(comp_data.items) :
                  comp_data.items[i].name.t = "str" /\ comp_data.items[i].name.s # "" }

FilledAttributes ==
    { i \in 1..Len(comp_data.attributes) :
        /\ comp_data.attributes[i].name.t = "str"
        /\ comp_data.attributes[i].name.s # ""
        /\ Len(comp_data.attributes[i].values) > 0 }

ComparisonRule(aligned) ==
    (WasParsed /\ IsRaw("comparison")) =>
        /\ Admitted =>
              LET c == component.component.body
              IN /\ Len(c.items) >= 2
                 /\ \A i \in 1..Len(c.items) : c.items[i] # ""
                 /\ Len(c.attributes) >= 1
                 /\ \A i \in 1..Len(c.attributes) :
                       /\ c.attributes[i].name # ""
                       /\ c.attributes[i].values # <<>>
                       /\ aligned => Len(c.attributes[i].values) = Len(c.items)
        /\ Admitted <=>
              /\ Cardinality(NamedItems) >= 2
              /\ Cardinality(FilledAttributes) >= 1
              /\ aligned => \A i \in FilledAttributes :
                                Len(comp_data.attributes[i].values) = Cardinality(NamedItems)

\* C27: a comparison that is admitted has at least 2 items with a non-empty
\* name, at least 1 attribute with a non-empty name and values, and as many
\* values in every attribute as it has items; a raw comparison that does
\* not meet this is dropped.
C27_ComparisonAligned == ComparisonRule(TRUE)

\* what holds: the same without the number of values
C27_ComparisonFilled == ComparisonRule(FALSE)

\* compose has returned what it made of a JSON document of its LLM
ComposedFromJson ==
    /\ compose_result # Unset
    /\ compose_result.kind \notin {"raise", "insufficient"}
    /\ compose_args.llm.kind = "json"

\* the component parse_component makes of the raw component is among the
\* components compose returned, and a section of the layout refers to it
ReturnedInSection(raw) ==
    LET made == parse_component(raw, Nil).component
    IN \E i \in 1..Len(compose_result.components) :
          LET c == compose_result.components[i]
          IN /\ c.type = made.type
             /\ c.body = made.body
             /\ \E k \in 1..Len(compose_result.layout.sections) :
                   \E j \in 1..Len(compose_result.layout.sections[k].component_ids) :
                       compose_result.layout.sections[k].component_ids[j] = c.id

ValidOnesReturned ==
    \A i \in 1..Len(compose_args.llm.data) : \A k \in 1..Len(compose_args.llm.data[i]) :
        LET raw == compose_args.llm.data[i][k]
        IN parse_component(raw, Nil).kind = "component" => ReturnedInSection(raw)

\* C30: a malformed raw component in the JSON of the composer's LLM only
\* causes that component to be dropped: every raw component of the response
\* that passes validation is returned by compose, in a section.
C30_MalformedOnlyDropped == ComposedFromJson => ValidOnesReturned

\* what holds: the same for the documents in which parse_component raises
\* for no raw component
C30_ValidReturnedUnlessRaising ==
    (ComposedFromJson /\ ~Raising(compose_args.llm.data)) => ValidOnesReturned

(***************************************************************************)
(* Interleaved executions                                                  *)
(***************************************************************************)
\* the ids of the components and of the sections' component_ids of a result
ResultIds(result) ==
    { result.components[i].id : i \in 1..Len(result.components) }
    \cup UNION { { result.layout.sections[k].component_ids[j] :
                       j \in 1..Len(result.layout.sections[k].component_ids) } :
                   k \in 1..Len(result.layout.sections) }

\* execute has returned to request p, which has not yet answered
Returned2(p) == pc[p] = "done" /\ ret[p].kind = "return"

\* what request p returned is made by its own stages, or is the value it read
OwnResult(p) ==
    /\ path[p] = "hit" => ret[p].result = cached[p]
    /\ path[p] # "hit" => \A id \in ResultIds(ret[p].result) : id[1] = p
    /\ path[p] = "ok" => /\ ret[p].result.layout = composed[p].layout
                         /\ ret[p].result.components = components[p]

\* request p calls cache.set in this step
Sets(p) == pc[p] = "finish" /\ path'[p] = "ok"

\* in one step: a value read from the cache is the one the cache holds under
\* the key of the query; what a request has returned is not changed by any
\* step of another; the value under a key changes only when Redis expires it
\* or a request sets it, and after a set the key holds what was set
StepKeepsApart ==
    /\ \A p \in Requests :
          /\ (pc[p] = "cache_get" /\ path'[p] = "hit") =>
                ret'[p].result = pickle_loads(cache[query_key(query[p])].data)
          /\ (Returned2(p) /\ pc'[p] = "done") => ret'[p] = ret[p]
          /\ Sets(p) => cache'[query_key(query[p])].data = pickle_dumps(ret'[p].result)
    /\ \A k \in CacheKeys :
          cache'[k] # cache[k] =>
             \/ cache'[k] = Absent
             \/ \E p \in Requests : Sets(p) /\ query_key(query[p]) = k

\* two requests with equal queries have both returned their own results
BothRan(p, q) ==
    /\ p # q
    /\ Returned2(p) /\ Returned2(q)
    /\ path[p] = "ok" /\ path[q] = "ok"
    /\ query[p] = query[q]

\* C28: executions interleaved at their awaits share nothing but the cache:
\* each returns the result of its own stages or the cached value it read,
\* no step alters what another has returned, a key holds the value of the
\* last cache.set on it until it expires, and when two executions of equal
\* queries have both run, they wrote under one key and the cache holds the
\* result of one of them.
C28_OnlyCacheShared ==
    /\ [](\A p \in Requests : Returned2(p) => OwnResult(p))
    /\ [](\A p, q \in Requests :
             BothRan(p, q) =>
                /\ query_key(query[p]) = query_key(query[q])
                /\ cache[query_key(query[p])].data \in {Nil, stored[p], stored[q]})
    /\ [][StepKeepsApart]_vars

\* two interleaved executions of equal queries have both run their stages
\* and returned different results, and the cache holds the result of r1,
\* which wrote last
C28_Witness ==
    /\ BothRan("r1", "r2")
    /\ ret["r1"].result.components # <<>>
    /\ stored["r1"] # stored["r2"]
    /\ cache[query_key(query["r1"])].data = stored["r1"]

(***************************************************************************)
(* Components and the sections that refer to them                          *)
(***************************************************************************)
\* how many component_ids entries of the layout's sections are the id
References(layout, id) ==
    Cardinality({ i \in 1..Len(SectionOrder(layout.sections)) :
                     SectionOrder(layout.sections)[i] = id })

\* each of the components cs is referred to by exactly one section entry
InOneSection(result, cs) ==
    \A i \in 1..Len(cs) : References(result.layout, cs[i].id) = 1

\* C29: in every result execute returns, every component of the components
\* list is referred to by the component_ids of exactly one section of the
\* layout, the low-completeness notice of the composer and the verification
\* notice of the orchestrator included.
C29_EveryComponentInOneSection ==
    \A p \in Requests :
        Returned2(p) => InOneSection(ret[p].result, ret[p].result.components)

\* what holds: the same for the components other than the two notices
\* inserted after the sections were built, and neither notice is referred to
\* by any section of a result made by the stages of the request
C29_AllButInsertedNotices ==
    \A p \in Requests :
        Returned2(p) =>
            LET r == ret[p].result
            IN /\ InOneSection(r, Parsed(r.components))
               /\ path[p] = "ok" =>
                     \A i \in 1..Len(r.components) :
                         (IsDataAvailability(r.components[i])
                              \/ IsVerificationWarning(r.components[i]))
                            => References(r.layout, r.components[i].id) = 0
====
